---- MODULE Spec2Model ----
(***************************************************************************)
(* Model of the answer pipeline of the voter-information application       *)
(* (candidates/utils.py, services.py, views.py, models.py): the LLM        *)
(* adapter, the structured-response parser, the web search adapter, the    *)
(* context assembly service, the engagement log, the traffic counters,     *)
(* the chatbot prompt, the session histories, the manifesto upload and     *)
(* the slug assignment of Candidate.save.                                  *)
(*                                                                         *)
(* Text is modelled as a sequence of one-character strings wherever the    *)
(* code looks inside it (lower(), replace(), split(), "in").  Each         *)
(* component has its own specification (SpecAI, SpecParse, ...); a         *)
(* component that is not running keeps its program counter at "idle".      *)
(***************************************************************************)
EXTENDS Integers, Sequences, FiniteSets, TLC

VARIABLES
    \* ---- get_candidate_intelligence_report (services.py 79-112)
    inPc,        \* "idle" | "start" | "parsed" | "done"
    inRegenerate,\* regenerate
    inReply,     \* what get_ai_response answers, a sequence of text chunks
    inAnalysis,  \* candidate.ai_work_analysis (<<>> when null or empty)
    inSaves,     \* calls of candidate.save() so far
    inLlm,       \* calls of get_ai_response so far
    inMatrix,    \* matrix_data
    inReturn,    \* the returned pair: [report, matrix]
    \* ---- detail views beside report generation (views.py 49-53, 467-505)
    rvReq,       \* each request: its kind, position and the view_count it loaded
    rvCount,     \* Candidate.view_count of the candidate, in the database
    rvBase,      \* view_count before the first request
    \* ---- extract_text_from_pdf (utils.py 94-117)
    pdPc,        \* "idle" | "start" | "loop" | "done"
    pdFile,      \* pdf_file: whether PdfReader can read it, and its pages
    pdMax,       \* max_chars
    pdIdx,       \* the page the loop is at
    pdParts,     \* text_parts
    pdCount,     \* chars_count
    pdResult,    \* what the function returned: [kind, parts]
    \* ---- concurrent calls of log_candidate_engagement (services.py 114-132)
    rcCall,      \* each invocation: position, arguments, what its check saw, its result
    rcMadeBy,    \* for each row of history, the invocation that created it
    \* ---- chat_view, one POST after another (views.py 141-183)
    rqPc,        \* "idle" | "ready" | "start" | "context" | "answer" | "update" | "log"
    rqBody,      \* request.body of the request in progress (or of the last one)
    rqQuery,     \* user_query
    rqSession,   \* request.session['chat_history']
    rqLogs,      \* the QueryLog table: the queries logged, in order
    rqWeb,       \* calls of get_relevant_context (each runs web_search) so far
    rqLlm,       \* calls of get_chatbot_response so far
    rqResponse,  \* the JsonResponse of the last request: [status, http]
    rqN,         \* requests received so far
    \* ---- Candidate.save (models.py 32-42)
    slPc,        \* "idle" | "loop": position of the save in progress
    slSelf,      \* the instance being saved: [id, name, slug]
    slBase,      \* base_slug
    slSlug,      \* slug (the local of save)
    slCounter,   \* counter
    slTable,     \* the rows of Candidate: set of [id, name, slug]
    slNextId,    \* the next primary key the database hands out
    \* ---- process_manifesto_upload, get_candidate_intelligence_report
    \* ---- (services.py 62-77, 100-105)
    upPc,        \* "idle" | "start" | "saved"
    rpPc,        \* "idle" | "start" | "done"
    upReply,     \* raw_analysis / raw_response, a sequence of text chunks
    upText,      \* text_content, by its length in characters
    manifesto,   \* the three analysis fields of the Manifesto row
    upReport,    \* candidate.ai_work_analysis as the report stored it
    \* ---- chat_view and analysis_lab (views.py 137-185, 244-366)
    sePc,        \* "idle" | "run"
    session,     \* request.session: key -> [set, val]
    analyses,    \* the ResearchAnalysis table, in insertion order
    seChatN,     \* chat requests answered so far
    seLabN,      \* lab chat requests answered so far
    chatLog,     \* every entry chat_view appended, in order
    labLog,      \* every entry the lab appended since its history was last emptied
    seLast,      \* the last request: its kind, prompts and documents
    \* ---- get_chatbot_response (utils.py 207-252)
    cbPc,        \* "idle" | "start" | "done"
    cbContext,   \* context_data, a sequence of characters
    cbWeb,       \* web_results, a sequence of characters
    cbHistory,   \* history, a sequence of turns
    cbPrompt,    \* the prompt handed to get_ai_response, block by block
    \* ---- detail views and global searches (views.py 49-56, 222-236)
    trReq,       \* each request: its kind, target, position, loaded object
    view_count,  \* Candidate.view_count of each candidate
    search_count,\* Candidate.search_count of each candidate
    trBase,      \* the two counters before the first request
    \* ---- get_ai_response (utils.py 42-92)
    aiPc,        \* "idle" | "groq" | "gemini" | "loop" | "done"
    groqKey,     \* settings.GROQ_API_KEY is set
    geminiKey,   \* settings.GEMINI_API_KEY is set
    sysInstr,    \* system_instruction is given
    aiIdx,       \* index into models_to_try
    aiCalls,     \* provider calls made so far, in order
    aiResult,    \* the value returned ("" while running)
    aiRaised,    \* an exception left get_ai_response
    \* ---- parse_structured_response (utils.py 119-136)
    prPc,        \* "idle" | "start" | "done"
    prText,      \* response_text, a sequence of text chunks
    prResult,    \* what the call produced: a value, None or an exception
    \* ---- web_search (utils.py 14-40)
    wsPc,        \* "idle" | "start" | "try" | "done"
    wsQuery,     \* query, a sequence of characters
    wsTry,       \* queries_to_try
    wsIdx,       \* position of the loop in queries_to_try
    wsCalls,     \* provider calls made so far: [q, out]
    wsResult,    \* the value returned, a sequence of lines
    wsRaised,    \* an exception left web_search
    \* ---- get_relevant_context (services.py 9-60)
    cxPc,        \* "idle" | "start" | "search" | "done"
    cxQuery,     \* user_query, a sequence of characters
    cxRefined,   \* refined_query, after the nickname rewriting
    cxSearch,    \* search_query, the argument of web_search
    cxWeb,       \* web_results
    cxLocal,     \* the local records collected, in database order
    \* ---- log_candidate_engagement (services.py 114-132)
    egPc,        \* "idle" | "run"
    now,         \* timezone.now(), in ticks
    history,     \* the EngagementHistory table, in insertion order
    egCall       \* the last call: its arguments, its return value

aiVars == <<aiPc, groqKey, geminiKey, sysInstr, aiIdx, aiCalls, aiResult, aiRaised>>

prVars == <<prPc, prText, prResult>>

wsVars == <<wsPc, wsQuery, wsTry, wsIdx, wsCalls, wsResult, wsRaised>>

cxVars == <<cxPc, cxQuery, cxRefined, cxSearch, cxWeb, cxLocal>>

egVars == <<egPc, now, history, egCall>>

trVars == <<trReq, view_count, search_count, trBase>>

cbVars == <<cbPc, cbContext, cbWeb, cbHistory, cbPrompt>>

seVars == <<sePc, session, analyses, seChatN, seLabN, chatLog, labLog, seLast>>

upVars == <<upPc, rpPc, upReply, upText, manifesto, upReport>>

slVars == <<slPc, slSelf, slBase, slSlug, slCounter, slTable, slNextId>>

rqVars == <<rqPc, rqBody, rqQuery, rqSession, rqLogs, rqWeb, rqLlm, rqResponse, rqN>>

rcVars == <<rcCall, rcMadeBy>>

pdVars == <<pdPc, pdFile, pdMax, pdIdx, pdParts, pdCount, pdResult>>

rvVars == <<rvReq, rvCount, rvBase>>

inVars == <<inPc, inRegenerate, inReply, inAnalysis, inSaves, inLlm, inMatrix, inReturn>>

vars == <<aiVars, prVars, wsVars, cxVars, egVars, trVars, cbVars, seVars, upVars, slVars, rqVars, rcVars, pdVars, rvVars, inVars>>

nonAiVars == <<prVars, wsVars, cxVars, egVars, trVars, cbVars, seVars, upVars, slVars, rqVars, rcVars, pdVars, rvVars, inVars>>

nonParseVars == <<aiVars, wsVars, cxVars, egVars, trVars, cbVars, seVars, upVars, slVars, rqVars, rcVars, pdVars, rvVars, inVars>>

nonSearchVars == <<aiVars, prVars, cxVars, egVars, trVars, cbVars, seVars, upVars, slVars, rqVars, rcVars, pdVars, rvVars, inVars>>

nonCtxVars == <<aiVars, prVars, egVars, trVars, cbVars, seVars, upVars, slVars, rqVars, rcVars, pdVars, rvVars, inVars>>

nonEngageVars == <<aiVars, prVars, wsVars, cxVars, trVars, cbVars, seVars, upVars, slVars, rqVars, rcVars, pdVars, rvVars, inVars>>

nonTrafficVars == <<aiVars, prVars, wsVars, cxVars, egPc, egCall, cbVars, seVars, upVars, slVars, rqVars, rcVars, pdVars, rvVars, inVars>>

nonChatbotVars == <<aiVars, prVars, wsVars, cxVars, egVars, trVars, seVars, upVars, slVars, rqVars, rcVars, pdVars, rvVars, inVars>>

nonSessionVars == <<aiVars, prVars, wsVars, cxVars, egVars, trVars, cbVars, upVars, slVars, rqVars, rcVars, pdVars, rvVars, inVars>>

nonUploadVars == <<aiVars, prVars, wsVars, cxVars, egVars, trVars, cbVars, seVars, slVars, rqVars, rcVars, pdVars, rvVars, inVars>>

nonSlugVars == <<aiVars, prVars, wsVars, cxVars, egVars, trVars, cbVars, seVars, upVars, rqVars, rcVars, pdVars, rvVars, inVars>>

nonRequestVars == <<aiVars, prVars, wsVars, cxVars, egVars, trVars, cbVars, seVars, upVars, slVars, rcVars, pdVars, rvVars, inVars>>

nonRaceVars == <<aiVars, prVars, wsVars, cxVars, egPc, egCall, trVars, cbVars, seVars, upVars, slVars, rqVars, pdVars, rvVars, inVars>>

nonPdfVars == <<aiVars, prVars, wsVars, cxVars, egVars, trVars, cbVars, seVars, upVars, slVars, rqVars, rcVars, rvVars, inVars>>

nonReportVars == <<aiVars, prVars, wsVars, cxVars, egVars, trVars, cbVars, seVars, upVars, slVars, rqVars, rcVars, pdVars, inVars>>

nonIntelVars == <<aiVars, prVars, wsVars, cxVars, egVars, trVars, cbVars, seVars, upVars, slVars, rqVars, rcVars, pdVars, rvVars>>

\* The state of a component that is not running.
IdleAI ==
    /\ aiPc = "idle"
    /\ groqKey = FALSE
    /\ geminiKey = FALSE
    /\ sysInstr = FALSE
    /\ aiIdx = 1
    /\ aiCalls = <<>>
    /\ aiResult = ""
    /\ aiRaised = FALSE

IdleParse ==
    /\ prPc = "idle"
    /\ prText = <<>>
    /\ prResult = [kind |-> "none", val |-> <<>>]

IdleSearch ==
    /\ wsPc = "idle"
    /\ wsQuery = <<>>
    /\ wsTry = <<>>
    /\ wsIdx = 1
    /\ wsCalls = <<>>
    /\ wsResult = <<>>
    /\ wsRaised = FALSE

IdleCtx ==
    /\ cxPc = "idle"
    /\ cxQuery = <<>>
    /\ cxRefined = <<>>
    /\ cxSearch = <<>>
    /\ cxWeb = <<>>
    /\ cxLocal = <<>>

IdleEngage ==
    /\ egPc = "idle"
    /\ now = 0
    /\ history = <<>>
    /\ egCall = [candidate |-> "", type |-> "", at |-> 0, ret |-> FALSE, rows |-> 0]

IdleTraffic ==
    /\ trReq = <<>>
    /\ view_count = <<>>
    /\ search_count = <<>>
    /\ trBase = <<>>

IdleChatbot ==
    /\ cbPc = "idle"
    /\ cbContext = <<>>
    /\ cbWeb = <<>>
    /\ cbHistory = <<>>
    /\ cbPrompt = [web |-> <<>>, local |-> <<>>, turns |-> <<>>, query |-> 0]

IdleSession ==
    /\ sePc = "idle"
    /\ session = <<>>
    /\ analyses = <<>>
    /\ seChatN = 0
    /\ seLabN = 0
    /\ chatLog = <<>>
    /\ labLog = <<>>
    /\ seLast = <<>>

IdleUpload ==
    /\ upPc = "idle"
    /\ rpPc = "idle"
    /\ upReply = <<>>
    /\ upText = 0
    /\ manifesto = <<>>
    /\ upReport = <<>>

IdleSlug ==
    /\ slPc = "idle"
    /\ slSelf = [id |-> 0, name |-> <<>>, slug |-> <<>>]   \* no save runs
    /\ slBase = <<>>
    /\ slSlug = <<>>
    /\ slCounter = 1
    /\ slTable = {}
    /\ slNextId = 1

IdleRequest ==
    /\ rqPc = "idle"
    /\ rqBody = [valid |-> FALSE, object |-> FALSE, has_query |-> FALSE, string |-> FALSE, query |-> <<>>]
    /\ rqQuery = <<>>
    /\ rqSession = <<>>
    /\ rqLogs = <<>>
    /\ rqWeb = 0
    /\ rqLlm = 0
    /\ rqResponse = [status |-> "none", http |-> 0]
    /\ rqN = 0

IdleRace ==
    /\ rcCall = <<>>
    /\ rcMadeBy = <<>>

IdlePdf ==
    /\ pdPc = "idle"
    /\ pdFile = [readable |-> FALSE, pages |-> <<>>]
    /\ pdMax = 0
    /\ pdIdx = 1
    /\ pdParts = <<>>
    /\ pdCount = 0
    /\ pdResult = [kind |-> "none", parts |-> <<>>]

IdleReport ==
    /\ rvReq = <<>>
    /\ rvCount = 0
    /\ rvBase = 0

IdleIntel ==
    /\ inPc = "idle"
    /\ inRegenerate = FALSE
    /\ inReply = <<>>
    /\ inAnalysis = <<>>
    /\ inSaves = 0
    /\ inLlm = 0
    /\ inMatrix = [kind |-> "none", val |-> <<>>]
    /\ inReturn = [report |-> <<>>, matrix |-> [kind |-> "none", val |-> <<>>]]

----------------------------------------------------------------------------
(* ------------------------- get_ai_response ---------------------------- *)

\* The texts a provider may answer with ("" is an empty reply).
ProviderTexts == {"reply A", "reply B"}

\* What one provider call does: it raises, or answers with empty or
\* non-empty text.
Outcomes ==
    {[kind |-> "raise", text |-> ""], [kind |-> "empty", text |-> ""]}
        \cup {[kind |-> "text", text |-> t] : t \in ProviderTexts}

GroqModel == "llama-3.3-70b-versatile"

models_to_try_swapped == <<"gemini-1.5-flash", "gemini-2.0-flash", "gemini-pro">>

models_to_try == <<"gemini-2.0-flash", "gemini-1.5-flash", "gemini-pro">>

NotConfiguredMessage_same == "The AI high-council is currently disconnected. Please check your internet or API keys."

\* utils.py 70: returned when the Gemini key is absent.
NotConfiguredMessage == "AI Service Error: Groq failed and Gemini is not configured."

\* utils.py 92: returned when the Gemini branch ends without text.
DisconnectedMessage == "The AI high-council is currently disconnected. Please check your internet or API keys."

\* utils.py 51-54: the roles of the messages handed to the primary provider.
GroqMessages(sys) ==
    (IF sys THEN <<"system">> ELSE <<>>) \o <<"user">>

\* utils.py 79-83: the Gemini model gets the system instruction (or None)
\* at construction and the prompt as its only content.
GeminiMessages(sys) ==
    (IF sys THEN <<"system_instruction">> ELSE <<>>) \o <<"user">>

\* The control state after the primary call (utils.py 56-66), as
\* [pc, result, raised].  An exception is caught and logged, an empty
\* reply falls through: both continue at the Gemini branch.
AfterGroq_NoCatch(out) ==
    CASE out.kind = "text"  -> [pc |-> "done", result |-> out.text, raised |-> FALSE]
      [] out.kind = "empty" -> [pc |-> "gemini", result |-> "", raised |-> FALSE]
      [] out.kind = "raise" -> [pc |-> "done", result |-> "", raised |-> TRUE]

AfterGroq(out) ==
    CASE out.kind = "text"  -> [pc |-> "done", result |-> out.text, raised |-> FALSE]
      [] out.kind = "empty" -> [pc |-> "gemini", result |-> "", raised |-> FALSE]
      [] out.kind = "raise" -> [pc |-> "gemini", result |-> "", raised |-> FALSE]

\* The control state after one Gemini model (utils.py 78-88): non-empty
\* text is returned, an exception or an empty reply moves to the next model.
AfterGemini(out) ==
    CASE out.kind = "text"  -> [pc |-> "done", result |-> out.text]
      [] out.kind = "empty" -> [pc |-> "loop", result |-> ""]
      [] out.kind = "raise" -> [pc |-> "loop", result |-> ""]

InitAI ==
    /\ IdleParse /\ IdleSearch /\ IdleCtx /\ IdleEngage /\ IdleTraffic /\ IdleChatbot /\ IdleSession /\ IdleUpload /\ IdleSlug /\ IdleRequest /\ IdleRace /\ IdlePdf /\ IdleReport /\ IdleIntel
    /\ aiPc = "groq"
    /\ groqKey \in BOOLEAN
    /\ geminiKey \in BOOLEAN
    /\ sysInstr \in BOOLEAN
    /\ aiIdx = 1
    /\ aiCalls = <<>>
    /\ aiResult = ""
    /\ aiRaised = FALSE

\* utils.py 47: no Groq key, the primary branch is skipped.
AiGroqSkip ==
    /\ aiPc = "groq"
    /\ ~groqKey
    /\ aiPc' = "gemini"
    /\ UNCHANGED <<groqKey, geminiKey, sysInstr, aiIdx, aiCalls, aiResult, aiRaised>>
    /\ UNCHANGED nonAiVars

\* utils.py 47-66: the primary provider is called once.
AiGroqCall ==
    /\ aiPc = "groq"
    /\ groqKey
    /\ \E out \in Outcomes :
        /\ aiCalls' = Append(aiCalls, [provider |-> "groq", model |-> GroqModel,
                                       messages |-> GroqMessages(sysInstr), out |-> out])
        /\ aiPc' = AfterGroq(out).pc
        /\ aiResult' = AfterGroq(out).result
        /\ aiRaised' = AfterGroq(out).raised
    /\ UNCHANGED <<groqKey, geminiKey, sysInstr, aiIdx>>
    /\ UNCHANGED nonAiVars

\* utils.py 69-70: Gemini is not configured.
AiGeminiMissing ==
    /\ aiPc = "gemini"
    /\ ~geminiKey
    /\ aiPc' = "done"
    /\ aiResult' = NotConfiguredMessage
    /\ UNCHANGED <<groqKey, geminiKey, sysInstr, aiIdx, aiCalls, aiRaised>>
    /\ UNCHANGED nonAiVars

\* utils.py 72-75, 89-92: genai.configure either succeeds, or raises into
\* the outer handler, after which the final message is returned.
AiGeminiConfigure ==
    /\ aiPc = "gemini"
    /\ geminiKey
    /\ \E configured \in BOOLEAN :
        IF configured
            THEN /\ aiPc' = "loop"
                 /\ aiIdx' = 1
                 /\ aiResult' = aiResult
            ELSE /\ aiPc' = "done"
                 /\ aiIdx' = aiIdx
                 /\ aiResult' = DisconnectedMessage
    /\ UNCHANGED <<groqKey, geminiKey, sysInstr, aiCalls, aiRaised>>
    /\ UNCHANGED nonAiVars

\* utils.py 77-88: the next Gemini model is called.
AiGeminiCall ==
    /\ aiPc = "loop"
    /\ aiIdx <= Len(models_to_try)
    /\ \E out \in Outcomes :
        /\ aiCalls' = Append(aiCalls, [provider |-> "gemini", model |-> models_to_try[aiIdx],
                                       messages |-> GeminiMessages(sysInstr), out |-> out])
        /\ aiPc' = AfterGemini(out).pc
        /\ aiResult' = AfterGemini(out).result
    /\ aiIdx' = aiIdx + 1
    /\ UNCHANGED <<groqKey, geminiKey, sysInstr, aiRaised>>
    /\ UNCHANGED nonAiVars

\* utils.py 92: every model was tried without text.
AiGeminiExhausted ==
    /\ aiPc = "loop"
    /\ aiIdx > Len(models_to_try)
    /\ aiPc' = "done"
    /\ aiResult' = DisconnectedMessage
    /\ UNCHANGED <<groqKey, geminiKey, sysInstr, aiIdx, aiCalls, aiRaised>>
    /\ UNCHANGED nonAiVars

NextAI ==
    \/ AiGroqSkip
    \/ AiGroqCall
    \/ AiGeminiMissing
    \/ AiGeminiConfigure
    \/ AiGeminiCall
    \/ AiGeminiExhausted

SpecAI == InitAI /\ [][NextAI]_vars

\* No provider call so far produced non-empty text.
AiNoText == \A i \in 1..Len(aiCalls) : aiCalls[i].out.kind # "text"

\* C1: get_ai_response never raises and, once it has returned, its value is
\* a non-empty string, whatever keys are configured and whatever each
\* provider call does; while it has not returned, a next step exists.
C1_NeverRaisesNonEmpty ==
    /\ ~aiRaised
    /\ aiPc = "done" => aiResult # ""
    /\ aiPc \in {"groq", "gemini", "loop"} => ENABLED NextAI

\* Both providers configured, every one of the four calls raised, and a
\* string was still returned.
C1_Witness ==
    /\ aiPc = "done"
    /\ groqKey /\ geminiKey
    /\ Len(aiCalls) = 4
    /\ \A i \in 1..4 : aiCalls[i].out.kind = "raise"
    /\ aiResult # ""

\* C2: with both providers configured, Groq is the first call; Gemini
\* models follow only after every earlier call failed (raised or was
\* empty), in the order gemini-2.0-flash, gemini-1.5-flash, gemini-pro;
\* the returned value is the text of the first call that produced text and
\* that call is the last one made.
C2_FallbackOrder ==
    (groqKey /\ geminiKey) =>
        /\ aiPc # "groq" => (Len(aiCalls) >= 1 /\ aiCalls[1].provider = "groq")
        /\ Len(aiCalls) <= 4
        /\ \A i \in 2..Len(aiCalls) :
              /\ aiCalls[i].provider = "gemini"
              /\ aiCalls[i].model =
                    <<"gemini-2.0-flash", "gemini-1.5-flash", "gemini-pro">>[i - 1]
        /\ \A i \in 1..(Len(aiCalls) - 1) : aiCalls[i].out.kind # "text"
        /\ (Len(aiCalls) >= 1 /\ aiCalls[Len(aiCalls)].out.kind = "text") =>
              (aiPc = "done" /\ aiResult = aiCalls[Len(aiCalls)].out.text)

\* Groq raised, the first Gemini model raised and was skipped, the second
\* answered, and its text was returned without calling gemini-pro.
C2_Witness ==
    /\ aiPc = "done"
    /\ groqKey /\ geminiKey
    /\ Len(aiCalls) = 3
    /\ aiCalls[1].out.kind = "raise"
    /\ aiCalls[2].out.kind = "raise"
    /\ aiCalls[3].out.kind = "text"
    /\ aiCalls[3].model = "gemini-1.5-flash"
    /\ aiResult = aiCalls[3].out.text

\* C3 as stated: whenever no provider gave text, the one string of the
\* exhausted case is returned, also when no provider is configured.
C3_OneFailureString ==
    (aiPc = "done" /\ AiNoText) =>
        aiResult = "The AI high-council is currently disconnected. Please check your internet or API keys."

\* C3 amended: without text the result is one of two fixed strings, chosen
\* by the Gemini key alone: the "not configured" string when the key is
\* absent, the "disconnected" string when Gemini was configured.
C3_TwoFailureStrings ==
    (aiPc = "done" /\ AiNoText) =>
        aiResult =
            IF geminiKey
                THEN "The AI high-council is currently disconnected. Please check your internet or API keys."
                ELSE "AI Service Error: Groq failed and Gemini is not configured."

\* Neither provider is configured and the function has returned.
C3_Witness ==
    /\ aiPc = "done"
    /\ ~groqKey /\ ~geminiKey
    /\ aiCalls = <<>>
    /\ aiResult # ""

----------------------------------------------------------------------------
(* --------------------- parse_structured_response ---------------------- *)

\* A reply is a sequence of chunks of text.  FenceOpen stands for three
\* backticks followed by the word json, FenceClose for three backticks not
\* followed by json, Pair for one complete member (a key, a colon and a
\* number), Key for a member's key and colon still waiting for a value.
FenceOpen == "[fence]json"

FenceClose == "[fence]"

Ws == " "

LBrace == "{"

RBrace == "}"

Pair == "k:1"

Key == "k:"

Chunks == {FenceOpen, FenceClose, Ws, LBrace, RBrace, Pair, Key}

MaxTextLen == 5

Texts == UNION {[1..n -> Chunks] : n \in 0..MaxTextLen}

Min(S) == CHOOSE x \in S : \A y \in S : x <= y

Max(S) == CHOOSE x \in S : \A y \in S : x >= y

\* The first position from i on that holds no whitespace (Len(t) + 1 when
\* only whitespace is left).
SkipWs(t, i) ==
    Min({k \in i..(Len(t) + 1) : k > Len(t) \/ t[k] # Ws})

\* Chunks that occur in the replies of the manifesto analysis: the two
\* members the analysis prompt asks for (each a key, a colon and a string),
\* the comma between members, and text that is neither JSON nor a fence.
SummaryPair == "summary:S"

PromisesPair == "promises:P"

Comma == ","

Prose == "prose"

\* Chunks that occur in the replies of the intelligence report: the five
\* score members the report prompt asks for (economic_vision,
\* social_progress, political_stability, infrastructure_focus,
\* diplomatic_acumen, each with a number) as one chunk, and the key
\* strategic_matrix with its colon, waiting for a value.
FiveScores == "scores:5"

MatrixKey == "strategic_matrix:"

\* A complete member of an object.
MemberChunks == {Pair, SummaryPair, PromisesPair, FiveScores}

\* A key and its colon.
KeyChunks == {Key, MatrixKey}

\* Where the JSON object that starts at t[i] ends (the position after its
\* closing brace), or 0 when no well-formed object starts there: the
\* object grammar of json.loads over the chunks.  MembersEnd is the same
\* for the rest of an object whose next member starts at t[j].
RECURSIVE ObjEnd(_, _), MembersEnd(_, _)
ObjEnd(t, i) ==
    IF i > Len(t) \/ t[i] # LBrace THEN 0
    ELSE LET j == SkipWs(t, i + 1) IN
         IF j > Len(t) THEN 0
         ELSE IF t[j] = RBrace THEN j + 1
         ELSE MembersEnd(t, j)

MembersEnd(t, j) ==
    LET v == IF t[j] \in MemberChunks THEN j + 1
             ELSE IF t[j] \in KeyChunks THEN ObjEnd(t, SkipWs(t, j + 1))
             ELSE 0
    IN  IF v = 0 THEN 0
        ELSE LET e == SkipWs(t, v) IN
             IF e > Len(t) THEN 0
             ELSE IF t[e] = RBrace THEN e + 1
             ELSE IF t[e] = Comma /\ SkipWs(t, e + 1) <= Len(t)
                 THEN MembersEnd(t, SkipWs(t, e + 1))
             ELSE 0

\* json.loads accepts one value with whitespace around it and nothing else.
IsJson(t) ==
    LET e == ObjEnd(t, SkipWs(t, 1)) IN
    e # 0 /\ SkipWs(t, e) = Len(t) + 1

NoneResult == [kind |-> "none", val |-> <<>>]

RaiseResult == [kind |-> "raise", val |-> <<>>]

\* json.loads: the parsed object (written without its whitespace, which a
\* parsed object does not keep), or an exception.
JsonLoads(t) ==
    IF IsJson(t)
        THEN [kind |-> "value", val |-> SelectSeq(t, LAMBDA c : c # Ws)]
        ELSE RaiseResult

\* t without its leading and trailing whitespace.
StripWs(t) ==
    LET a == SkipWs(t, 1)
        b == Max({0} \cup {k \in 1..Len(t) : t[k] # Ws})
    IN  IF a > b THEN <<>> ELSE SubSeq(t, a, b)

\* utils.py 125: the search for a fenced json block, as [found, group1].
\* The match starts at the leftmost opening fence; the whitespace after it
\* is skipped, the lazy group ends before the whitespace that precedes the
\* nearest fence after it, which may be the start of another opening
\* fence.  When the leftmost opening has no fence after it, no later
\* opening has one either.
FenceSearch(t) ==
    LET opens == {i \in 1..Len(t) : t[i] = FenceOpen} IN
    IF opens = {} THEN [found |-> FALSE, group |-> <<>>]
    ELSE LET i == Min(opens)
             closers == {j \in (i + 1)..Len(t) : t[j] \in {FenceOpen, FenceClose}}
         IN  IF closers = {} THEN [found |-> FALSE, group |-> <<>>]
             ELSE [found |-> TRUE,
                   group |-> StripWs(SubSeq(t, i + 1, Min(closers) - 1))]

\* The span of the first brace-delimited object: from the first "{" to the
\* "}" that closes it.
BraceSearch_balanced(t) ==
    LET opens == {i \in 1..Len(t) : t[i] = LBrace} IN
    IF opens = {} THEN [found |-> FALSE, group |-> <<>>]
    ELSE LET a == Min(opens)
             depth(k) == Cardinality({x \in a..k : t[x] = LBrace})
                            - Cardinality({x \in a..k : t[x] = RBrace})
             closes == {b \in (a + 1)..Len(t) : t[b] = RBrace /\ depth(b) = 0}
         IN  IF closes = {} THEN [found |-> FALSE, group |-> <<>>]
             ELSE [found |-> TRUE, group |-> SubSeq(t, a, Min(closes))]

\* utils.py 130: the search for a brace, anything (greedy, newlines
\* included), a brace, as [found, group0].  The match starts at the
\* leftmost opening brace and the greedy middle carries it to the last
\* closing brace of the text.
BraceSearch(t) ==
    LET opens == {i \in 1..Len(t) : t[i] = LBrace} IN
    IF opens = {} THEN [found |-> FALSE, group |-> <<>>]
    ELSE LET a == Min(opens)
             closes == {b \in (a + 1)..Len(t) : t[b] = RBrace}
         IN  IF closes = {} THEN [found |-> FALSE, group |-> <<>>]
             ELSE [found |-> TRUE, group |-> SubSeq(t, a, Max(closes))]

\* utils.py 124-134: the body of the try block.
ParseBody(t) ==
    IF FenceSearch(t).found THEN JsonLoads(FenceSearch(t).group)
    ELSE IF BraceSearch(t).found THEN JsonLoads(BraceSearch(t).group)
    ELSE NoneResult

parse_structured_response_uncaught(t) == ParseBody(t)

\* utils.py 119-136: any exception of the body becomes None.
parse_structured_response(t) ==
    IF ParseBody(t).kind = "raise" THEN NoneResult ELSE ParseBody(t)

InitParse ==
    /\ IdleAI /\ IdleSearch /\ IdleCtx /\ IdleEngage /\ IdleTraffic /\ IdleChatbot /\ IdleSession /\ IdleUpload /\ IdleSlug /\ IdleRequest /\ IdleRace /\ IdlePdf /\ IdleReport /\ IdleIntel
    /\ prPc = "start"
    /\ prText \in Texts
    /\ prResult = NoneResult

\* One call of parse_structured_response(prText).
Parse ==
    /\ prPc = "start"
    /\ prPc' = "done"
    /\ prResult' = parse_structured_response(prText)
    /\ UNCHANGED prText
    /\ UNCHANGED nonParseVars

NextParse == Parse

SpecParse == InitParse /\ [][NextParse]_vars

\* Some stretch of the text is a well-formed JSON object.
ContainsJson(t) ==
    \E i \in 1..Len(t) : \E j \in i..Len(t) : IsJson(SubSeq(t, i, j))

HasFence(t) ==
    \E i \in 1..Len(t) : \E j \in (i + 1)..Len(t) :
        t[i] = FenceOpen /\ t[j] \in {FenceOpen, FenceClose}

\* The content of the first fenced block.
FenceContent(t) ==
    LET i == Min({k \in 1..Len(t) : t[k] = FenceOpen})
        j == Min({k \in (i + 1)..Len(t) : t[k] \in {FenceOpen, FenceClose}})
    IN  SubSeq(t, i + 1, j - 1)

HasBraces(t) ==
    \E i \in 1..Len(t) : \E j \in (i + 1)..Len(t) : t[i] = LBrace /\ t[j] = RBrace

\* The text from the first "{" to the last "}".
OuterBraces(t) ==
    SubSeq(t, Min({k \in 1..Len(t) : t[k] = LBrace}),
              Max({k \in 1..Len(t) : t[k] = RBrace}))

LoadsOrNone(t) == IF IsJson(t) THEN JsonLoads(t) ELSE NoneResult

\* C4: parse_structured_response never raises, and returns None for a text
\* with no JSON object anywhere in it, for a text whose fenced block is
\* not well-formed JSON, and for a text without a fenced block whose
\* brace-delimited part is not well-formed JSON.
C4_MalformedGivesNone ==
    prPc = "done" =>
        /\ prResult.kind # "raise"
        /\ ~ContainsJson(prText) => prResult = NoneResult
        /\ (HasFence(prText) /\ ~IsJson(FenceContent(prText))) => prResult = NoneResult
        /\ (~HasFence(prText) /\ HasBraces(prText) /\ ~IsJson(OuterBraces(prText)))
              => prResult = NoneResult

\* A fenced block holding an unclosed object was parsed to None.
C4_Witness ==
    /\ prPc = "done"
    /\ prText = <<FenceOpen, LBrace, Pair, FenceClose>>
    /\ prResult = NoneResult

\* C5 as stated: the fenced block when there is one, otherwise the span
\* from the first "{" to the "}" matching it, so a well-formed first object
\* is returned whatever follows it.
C5_FirstBalancedSpan ==
    prPc = "done" =>
        prResult =
            IF HasFence(prText) THEN LoadsOrNone(FenceContent(prText))
            ELSE IF BraceSearch_balanced(prText).found
                THEN LoadsOrNone(BraceSearch_balanced(prText).group)
            ELSE NoneResult

\* C5 amended: the fenced block when there is one, otherwise the span from
\* the first "{" to the LAST "}" of the text; a well-formed first object is
\* returned only when no "}" follows its closing brace, and None is
\* returned when one does.
C5_FirstToLastBrace ==
    prPc = "done" =>
        /\ prResult =
            IF HasFence(prText) THEN LoadsOrNone(FenceContent(prText))
            ELSE IF HasBraces(prText) THEN LoadsOrNone(OuterBraces(prText))
            ELSE NoneResult
        /\ (~HasFence(prText) /\ BraceSearch_balanced(prText).found
                /\ IsJson(BraceSearch_balanced(prText).group)) =>
              IF BraceSearch_balanced(prText).group = OuterBraces(prText)
                  THEN prResult = JsonLoads(BraceSearch_balanced(prText).group)
                  ELSE prResult = NoneResult

\* A well-formed first object followed by text with a brace: None.
C5_Witness ==
    /\ prPc = "done"
    /\ prText = <<LBrace, Pair, RBrace, Ws, RBrace>>
    /\ prResult = NoneResult

----------------------------------------------------------------------------
(* ----------------------------- web_search ----------------------------- *)

Space == " "

\* The words of q from position i on: str.split() with no argument, which
\* splits at runs of whitespace and drops empty words.
RECURSIVE SplitFrom(_, _)
SplitFrom(q, i) ==
    IF i > Len(q) THEN <<>>
    ELSE IF q[i] = Space THEN SplitFrom(q, i + 1)
    ELSE LET e == Min({k \in i..Len(q) : k = Len(q) \/ q[k + 1] = Space})
         IN  <<SubSeq(q, i, e)>> \o SplitFrom(q, e + 1)

Split(q) == SplitFrom(q, 1)

\* " ".join(words)
RECURSIVE JoinSpace(_)
JoinSpace(words) ==
    IF words = <<>> THEN <<>>
    ELSE IF Len(words) = 1 THEN words[1]
    ELSE words[1] \o <<Space>> \o JoinSpace(Tail(words))

Take(sq, n) == SubSeq(sq, 1, IF Len(sq) < n THEN Len(sq) ELSE n)

QueriesToTry_off(q) ==
    <<q>> \o (IF Len(Split(q)) > 4 THEN <<JoinSpace(Take(Split(q), 4))>> ELSE <<>>)

\* utils.py 18-21: the full query, and its first four words when it has
\* more than five.
QueriesToTry(q) ==
    <<q>> \o (IF Len(Split(q)) > 5 THEN <<JoinSpace(Take(Split(q), 4))>> ELSE <<>>)

\* One result of the provider; its body may be missing or empty.
Hits ==
    {[title |-> "title", body |-> b, href |-> "url"] : b \in {"", "snippet"}}

MaxHits == 2

\* What one provider call does: it raises, or returns a list of results.
SearchOutcomes ==
    {[kind |-> "raise", results |-> <<>>]}
        \cup {[kind |-> "results", results |-> r] :
                 r \in UNION {[1..n -> Hits] : n \in 0..MaxHits}}

\* utils.py 40
NoResultsSentinel ==
    <<"Operational Status: Real-time search returned zero hits. AI-Internal knowledge required.">>

\* utils.py 31-34: the lines of the digest, three for each result that has
\* a body; the digest is these lines joined by newlines, so it is the empty
\* string exactly when there is no line.
RECURSIVE Digest(_)
Digest(results) ==
    IF results = <<>> THEN <<>>
    ELSE (IF results[1].body # ""
            THEN << [label |-> "Title", text |-> results[1].title],
                    [label |-> "Snippet", text |-> results[1].body],
                    [label |-> "Source", text |-> results[1].href] >>
            ELSE <<>>)
         \o Digest(Tail(results))

\* The queries web_search is run on directly: pieces of text put together.
SearchPieces == {<<"a", Space>>, <<"b", "b", Space>>, <<Space>>, <<"c">>}

MaxPieces == 7

RECURSIVE Concat(_)
Concat(parts) ==
    IF parts = <<>> THEN <<>> ELSE parts[1] \o Concat(Tail(parts))

SearchQueries ==
    {Concat(ps) : ps \in UNION {[1..n -> SearchPieces] : n \in 0..MaxPieces}}

\* utils.py 18-21
WsStart ==
    /\ wsPc = "start"
    /\ wsTry' = QueriesToTry(wsQuery)
    /\ wsIdx' = 1
    /\ wsPc' = "try"
    /\ UNCHANGED <<wsQuery, wsCalls, wsResult, wsRaised>>
    /\ UNCHANGED nonSearchVars

\* utils.py 23-38: one turn of the loop.  Results that are not empty end
\* the function with their digest; an exception or an empty list moves on
\* to the next query.
WsAttempt ==
    /\ wsPc = "try"
    /\ wsIdx <= Len(wsTry)
    /\ \E out \in SearchOutcomes :
        /\ wsCalls' = Append(wsCalls, [q |-> wsTry[wsIdx], out |-> out])
        /\ IF out.kind = "results" /\ out.results # <<>>
              THEN /\ wsResult' = Digest(out.results)
                   /\ wsPc' = "done"
                   /\ wsIdx' = wsIdx
              ELSE /\ wsResult' = wsResult
                   /\ wsPc' = "try"
                   /\ wsIdx' = wsIdx + 1
    /\ UNCHANGED <<wsQuery, wsTry, wsRaised>>
    /\ UNCHANGED nonSearchVars

\* utils.py 40: the loop ended without a return.
WsExhausted ==
    /\ wsPc = "try"
    /\ wsIdx > Len(wsTry)
    /\ wsResult' = NoResultsSentinel
    /\ wsPc' = "done"
    /\ UNCHANGED <<wsQuery, wsTry, wsIdx, wsCalls, wsRaised>>
    /\ UNCHANGED nonSearchVars

InitSearch ==
    /\ IdleAI /\ IdleParse /\ IdleCtx /\ IdleEngage /\ IdleTraffic /\ IdleChatbot /\ IdleSession /\ IdleUpload /\ IdleSlug /\ IdleRequest /\ IdleRace /\ IdlePdf /\ IdleReport /\ IdleIntel
    /\ wsPc = "start"
    /\ wsQuery \in SearchQueries
    /\ wsTry = <<>>
    /\ wsIdx = 1
    /\ wsCalls = <<>>
    /\ wsResult = <<>>
    /\ wsRaised = FALSE

NextSearch ==
    \/ WsStart
    \/ WsAttempt
    \/ WsExhausted

SpecSearch == InitSearch /\ [][NextSearch]_vars

\* An attempt that raised or gave nothing usable: no result with a body.
WsUnusable(call) ==
    \/ call.out.kind = "raise"
    \/ \A i \in 1..Len(call.out.results) : call.out.results[i].body = ""

\* C8: web_search never raises; it returns the no-results sentinel or a
\* digest that is not empty and holds at least one title/snippet/source
\* triple; when every attempt raised or gave no usable result, it returns
\* the sentinel, never the empty string.
C8_DigestOrSentinel ==
    wsPc = "done" =>
        /\ ~wsRaised
        /\ wsResult # <<>>
        /\ wsResult = NoResultsSentinel \/ Len(wsResult) >= 3
        /\ (\A i \in 1..Len(wsCalls) : WsUnusable(wsCalls[i])) =>
              wsResult = NoResultsSentinel

\* The first attempt failed: it raised or returned an empty list.
WsFailed(call) ==
    call.out.kind = "raise" \/ call.out.results = <<>>

\* C9: at most two provider calls; the first with the full query; a second
\* one only for a query of more than five words whose first attempt raised
\* or returned no results, and then with the first four words joined by
\* single spaces; a query of five words or fewer is attempted once.
C9_AtMostOneRetry ==
    /\ Len(wsCalls) <= 2
    /\ Len(wsCalls) >= 1 => wsCalls[1].q = wsQuery
    /\ Len(wsCalls) = 2 =>
          /\ Len(Split(wsQuery)) > 5
          /\ WsFailed(wsCalls[1])
          /\ wsCalls[2].q = JoinSpace(SubSeq(Split(wsQuery), 1, 4))
    /\ wsPc = "done" =>
          /\ Len(wsCalls) >= 1
          /\ Len(Split(wsQuery)) <= 5 => Len(wsCalls) = 1
          /\ (Len(Split(wsQuery)) > 5 /\ WsFailed(wsCalls[1])) => Len(wsCalls) = 2

\* A six-word query with a doubled space: the first attempt raised, the
\* retry used the first four words and returned a digest.
C9_Witness ==
    /\ wsPc = "done"
    /\ wsQuery = <<"a", " ", " ", "b", "b", " ", "a", " ", "b", "b", " ", "a", " ", "c">>
    /\ Len(wsCalls) = 2
    /\ wsCalls[1].out.kind = "raise"
    /\ wsCalls[2].q = <<"a", " ", "b", "b", " ", "a", " ", "b", "b">>
    /\ Len(wsResult) = 3

----------------------------------------------------------------------------
(* ------------------------ get_relevant_context ------------------------ *)

\* str.lower() on the letters the model's texts use.
Lower(c) ==
    CASE c = "B" -> "b" [] c = "D" -> "d" [] c = "G" -> "g" [] c = "K" -> "k"
      [] c = "L" -> "l" [] c = "N" -> "n" [] c = "O" -> "o" [] c = "P" -> "p"
      [] c = "R" -> "r" [] c = "S" -> "s"
      [] OTHER -> c

LowerStr(t) == [i \in 1..Len(t) |-> Lower(t[i])]

\* sub in t
Contains(t, sub) ==
    \E i \in 1..(Len(t) - Len(sub) + 1) : SubSeq(t, i, i + Len(sub) - 1) = sub

\* t[i:].replace(old, new): every occurrence of old, found from the left
\* and not overlapping, becomes new.
RECURSIVE ReplaceFrom(_, _, _, _)
ReplaceFrom(t, i, old, new) ==
    IF i + Len(old) - 1 > Len(t) THEN SubSeq(t, i, Len(t))
    ELSE IF SubSeq(t, i, i + Len(old) - 1) = old
        THEN new \o ReplaceFrom(t, i + Len(old), old, new)
        ELSE <<t[i]>> \o ReplaceFrom(t, i + 1, old, new)

Replace(t, old, new) == ReplaceFrom(t, 1, old, new)

\* services.py 17-25: the nickname table, in the order the loop visits it.
nicknames ==
    << [nick |-> <<"k", "p", "o", "l", "i">>,
        full |-> <<"K", "P", " ", "S", "h", "a", "r", "m", "a", " ", "O", "l", "i">>],
       [nick |-> <<"k", "p", " ", "o", "l", "i">>,
        full |-> <<"K", "P", " ", "S", "h", "a", "r", "m", "a", " ", "O", "l", "i">>],
       [nick |-> <<"p", "r", "a", "c", "h", "a", "n", "d", "a">>,
        full |-> <<"P", "u", "s", "h", "p", "a", " ", "K", "a", "m", "a", "l", " ", "D", "a", "h", "a", "l">>],
       [nick |-> <<"d", "e", "u", "b", "a">>,
        full |-> <<"S", "h", "e", "r", " ", "B", "a", "h", "a", "d", "u", "r", " ", "D", "e", "u", "b", "a">>],
       [nick |-> <<"r", "a", "b", "i">>,
        full |-> <<"R", "a", "b", "i", " ", "L", "a", "m", "i", "c", "h", "h", "a", "n", "e">>],
       [nick |-> <<"b", "a", "l", "e", "n">>,
        full |-> <<"B", "a", "l", "e", "n", "d", "r", "a", " ", "S", "h", "a", "h">>],
       [nick |-> <<"g", "y", "a", "n", "e">>,
        full |-> <<"G", "y", "a", "n", "e", "n", "d", "r", "a", " ", "S", "h", "a", "h", "i">>] >>

\* services.py 27-30: the loop over the table from entry k on.  A nickname
\* is looked for in the lowercased original query and replaced, as
\* written, in the query rewritten so far.
RECURSIVE RefineFrom(_, _, _)
RefineFrom(refined, k, query_lower) ==
    IF k > Len(nicknames) THEN refined
    ELSE RefineFrom(
            IF Contains(query_lower, nicknames[k].nick)
                THEN Replace(refined, nicknames[k].nick, nicknames[k].full)
                ELSE refined,
            k + 1, query_lower)

\* services.py 14, 27-30
RefinedQuery(user_query) == RefineFrom(user_query, 1, LowerStr(user_query))

NepalWord == <<"n", "e", "p", "a", "l">>

NepalSuffix == <<" ", "N", "e", "p", "a", "l", " ", "p", "o", "l", "i", "t", "i", "c", "s">>

SearchQueryFor_CaseSensitive(refined) ==
    IF ~Contains(refined, NepalWord) THEN refined \o NepalSuffix ELSE refined

\* services.py 33-36
SearchQueryFor(refined) ==
    IF ~Contains(LowerStr(refined), NepalWord) THEN refined \o NepalSuffix ELSE refined

\* services.py 43: web_results when web_search raises.
ThrottledMessage == <<"Operational constraint: Web search currently throttled.">>

\* The Candidate table, in database order: the name and the length of
\* ai_work_analysis (0 when it is null or empty).
CandidateTable ==
    << [name |-> <<"B", "a", "l", "e", "n">>, analysisLen |-> 800],
       [name |-> <<"K", "P", " ", "O", "l", "i">>, analysisLen |-> 0],
       [name |-> <<"R", "a", "b", "i">>, analysisLen |-> 120],
       [name |-> <<"D", "a", "h", "a", "l", " ", "(", "P", ")">>, analysisLen |-> 500] >>

AnalysisBudget == 500

\* \w of the regular expression, on the characters of the model's texts.
IsWordChar(c) == c \notin {Space, "(", ")"}

\* \b at the gap before position i of t: a word character on exactly one
\* side (beyond either end of t there is none).
Boundary(t, i) ==
    LET before == i - 1 >= 1 /\ i - 1 <= Len(t) /\ IsWordChar(t[i - 1])
        after == i >= 1 /\ i <= Len(t) /\ IsWordChar(t[i])
    IN  before # after

\* services.py 49: the name, lowercased, occurs in query_lower between two
\* word boundaries.
WholeWordMatch(name, query_lower) ==
    \E i \in 1..(Len(query_lower) - Len(name) + 1) :
        /\ SubSeq(query_lower, i, i + Len(name) - 1) = LowerStr(name)
        /\ Boundary(query_lower, i)
        /\ Boundary(query_lower, i + Len(name))

\* services.py 46-59: one record per matching candidate, in database
\* order: the name and, when the candidate has an analysis, the number of
\* its characters that are kept.
RECURSIVE LocalContextFrom(_, _)
LocalContextFrom(k, query_lower) ==
    IF k > Len(CandidateTable) THEN <<>>
    ELSE (IF WholeWordMatch(CandidateTable[k].name, query_lower)
            THEN << [name |-> CandidateTable[k].name,
                     hasAnalysis |-> CandidateTable[k].analysisLen > 0,
                     analysisChars |->
                        IF CandidateTable[k].analysisLen < AnalysisBudget
                            THEN CandidateTable[k].analysisLen
                            ELSE AnalysisBudget] >>
            ELSE <<>>)
         \o LocalContextFrom(k + 1, query_lower)

\* The user queries: pieces of text put together.
QueryPieces ==
    {<<"d", "e", "u">>,
     <<"b", "a">>,
     <<"l", "e", "n">>,
     <<"k", "p">>,
     <<" ">>,
     <<"o", "l", "i">>,
     <<"p", "r", "a", "c", "h", "a", "n", "d", "a">>,
     <<"r", "a", "b", "i">>,
     <<"g", "y", "a", "n", "e">>,
     <<"n", "e", "p", "a", "l">>,
     <<"N", "e", "p", "a", "l">>,
     <<"w", "h", "o">>,
     <<"K", "P">>,
     <<"D", "a", "h", "a", "l", " ", "(", "P", ")">>}

MaxQueryPieces == 3

UserQueries ==
    {Concat(ps) : ps \in UNION {[1..n -> QueryPieces] : n \in 0..MaxQueryPieces}}

InitCtx ==
    /\ IdleAI /\ IdleParse /\ IdleSearch /\ IdleEngage /\ IdleTraffic /\ IdleChatbot /\ IdleSession /\ IdleUpload /\ IdleSlug /\ IdleRequest /\ IdleRace /\ IdlePdf /\ IdleReport /\ IdleIntel
    /\ cxPc = "start"
    /\ cxQuery \in UserQueries
    /\ cxRefined = <<>>
    /\ cxSearch = <<>>
    /\ cxWeb = <<>>
    /\ cxLocal = <<>>

\* services.py 14-39: the query is rewritten and web_search is called on it.
CxSearch ==
    /\ cxPc = "start"
    /\ cxRefined' = RefinedQuery(cxQuery)
    /\ cxSearch' = SearchQueryFor(RefinedQuery(cxQuery))
    /\ cxPc' = "search"
    /\ wsPc' = "start"
    /\ wsQuery' = SearchQueryFor(RefinedQuery(cxQuery))
    /\ wsTry' = <<>>
    /\ wsIdx' = 1
    /\ wsCalls' = <<>>
    /\ wsResult' = <<>>
    /\ wsRaised' = FALSE
    /\ UNCHANGED <<cxQuery, cxWeb, cxLocal>>
    /\ UNCHANGED nonCtxVars

\* services.py 39-60: web_search has returned (or raised); the local
\* records are collected and both texts are returned.
CxReturn ==
    /\ cxPc = "search"
    /\ wsPc = "done"
    /\ cxWeb' = IF wsRaised THEN ThrottledMessage ELSE wsResult
    /\ cxLocal' = LocalContextFrom(1, LowerStr(cxQuery))
    /\ cxPc' = "done"
    /\ UNCHANGED <<cxQuery, cxRefined, cxSearch>>
    /\ UNCHANGED wsVars
    /\ UNCHANGED nonCtxVars

NextCtx ==
    \/ CxSearch
    \/ WsStart
    \/ WsAttempt
    \/ WsExhausted
    \/ CxReturn

SpecCtx == InitCtx /\ [][NextCtx]_vars

\* C6: when the user query contains a nickname of the table as the table
\* writes it (kpoli, kp oli, prachanda, deuba, rabi, balen, gyane), the
\* query passed to web_search contains the full name of that entry.
C6_NicknameResolved ==
    cxPc # "start" =>
        \A k \in 1..Len(nicknames) :
            Contains(cxQuery, nicknames[k].nick) => Contains(wsQuery, nicknames[k].full)

\* The same for every entry but deuba.
C6_AllButDeuba ==
    cxPc # "start" =>
        \A k \in 1..Len(nicknames) :
            (nicknames[k].nick # <<"d", "e", "u", "b", "a">> /\ Contains(cxQuery, nicknames[k].nick))
                => Contains(wsQuery, nicknames[k].full)

\* w occurs in t in some mix of letter cases (w is written in lower case).
ContainsAnyCase(t, w) ==
    \E i \in 1..(Len(t) - Len(w) + 1) :
        \A j \in 1..Len(w) : Lower(t[i + j - 1]) = w[j]

\* C24: when a nickname of the table occurs in the user query in any mix
\* of letter cases (KP Oli, KPoli, ...), the query passed to web_search
\* contains the full name of that entry.
C24_AnyCaseResolved ==
    cxPc # "start" =>
        \A k \in 1..Len(nicknames) :
            ContainsAnyCase(cxQuery, nicknames[k].nick)
                => Contains(wsQuery, nicknames[k].full)

\* The same for the queries in which every nickname that occurs is written
\* in lower case throughout, deuba apart.
C24_LowerCaseResolved ==
    cxPc # "start" =>
        \A k \in 1..Len(nicknames) :
            (/\ nicknames[k].nick # <<"d", "e", "u", "b", "a">>
             /\ ContainsAnyCase(cxQuery, nicknames[k].nick)
             /\ cxQuery = LowerStr(cxQuery))
                => Contains(wsQuery, nicknames[k].full)

\* C7: the query passed to web_search is the rewritten query itself when
\* that contains nepal in any letter case, and the rewritten query followed
\* by " Nepal politics" when it does not.
C7_NepalSuffix ==
    cxPc # "start" =>
        wsQuery =
            IF ContainsAnyCase(cxRefined, <<"n", "e", "p", "a", "l">>)
                THEN cxRefined
                ELSE cxRefined \o <<" ", "N", "e", "p", "a", "l", " ", "p", "o", "l", "i", "t", "i", "c", "s">>

\* name occurs in t, in any letter case, as whole words: no word character
\* stands directly before or directly after the occurrence.
OccursAsWholeWords(name, t) ==
    \E i \in 1..(Len(t) - Len(name) + 1) :
        /\ \A j \in 1..Len(name) : Lower(t[i + j - 1]) = Lower(name[j])
        /\ (i > 1 => t[i - 1] \in {Space, "(", ")"})
        /\ (i + Len(name) <= Len(t) => t[i + Len(name)] \in {Space, "(", ")"})

\* The candidates of the table, in its order, whose name occurs in t as
\* whole words.
NamedIn(t) ==
    SelectSeq(CandidateTable, LAMBDA c : OccursAsWholeWords(c.name, t))

\* C21: the local context holds a record for exactly the candidates whose
\* full name occurs in the original query as whole words in any letter
\* case, in database order, each with the name and at most the first 500
\* characters of the analysis.
C21_LocalRecords ==
    cxPc = "done" =>
        /\ Len(cxLocal) = Len(NamedIn(cxQuery))
        /\ \A k \in 1..Len(cxLocal) :
               /\ cxLocal[k].name = NamedIn(cxQuery)[k].name
               /\ cxLocal[k].analysisChars <= 500
               /\ cxLocal[k].analysisChars <= NamedIn(cxQuery)[k].analysisLen

\* The same for the candidates whose name begins and ends with a letter.
C21_LetterEndedNames ==
    cxPc = "done" =>
        LET lettered(c) == c.name[1] \notin {"(", ")"} /\ c.name[Len(c.name)] \notin {"(", ")"}
            found == SelectSeq(cxLocal, lettered)
            named == SelectSeq(NamedIn(cxQuery), lettered)
        IN  /\ Len(found) = Len(named)
            /\ \A k \in 1..Len(found) :
                   /\ found[k].name = named[k].name
                   /\ found[k].analysisChars <= 500

\* A query that says Nepal with a capital letter went to web_search as it
\* was rewritten, with nothing appended.
C7_Witness ==
    /\ cxPc = "done"
    /\ cxQuery = <<"w", "h", "o", " ", "N", "e", "p", "a", "l">>
    /\ wsQuery = <<"w", "h", "o", " ", "N", "e", "p", "a", "l">>
    /\ Len(wsCalls) >= 1

----------------------------------------------------------------------------
(* ---------------------- log_candidate_engagement ---------------------- *)

\* Time is counted in ticks; one hour is HourTicks of them.
HourTicks == 2

MaxTime == 4

CandidateIds == {"c1", "c2"}

EngagementTypes == {"view", "search"}

\* One EngagementHistory row as objects.create(candidate=c, views=1) or
\* objects.create(candidate=c, searches=1) stores it at time t: the
\* timestamp is the time of creation.
EngagementRow(c, type, t) ==
    [candidate |-> c,
     timestamp |-> t,
     views |-> IF type = "view" THEN 1 ELSE 0,
     searches |-> IF type = "view" THEN 0 ELSE 1]

RecentLog_Inclusive(c, t) ==
    \E i \in 1..Len(history) :
        /\ history[i].candidate = c
        /\ history[i].timestamp >= t - HourTicks

RecentLog_Never(c, t) == FALSE

\* services.py 118-124: a row of the candidate with timestamp__gt=cooldown
\* exists, where cooldown is one hour before now.
RecentLog(c, t) ==
    \E i \in 1..Len(history) :
        /\ history[i].candidate = c
        /\ history[i].timestamp > t - HourTicks

InitEngage ==
    /\ IdleAI /\ IdleParse /\ IdleSearch /\ IdleCtx /\ IdleTraffic /\ IdleChatbot /\ IdleSession /\ IdleUpload /\ IdleSlug /\ IdleRequest /\ IdleRace /\ IdlePdf /\ IdleReport /\ IdleIntel
    /\ egPc = "run"
    /\ now = 0
    /\ history = <<>>
    /\ egCall = [candidate |-> "", type |-> "", at |-> 0, ret |-> FALSE, rows |-> 0]

\* Time passes between two requests.
Tick ==
    /\ egPc = "run"
    /\ now < MaxTime
    /\ now' = now + 1
    /\ UNCHANGED <<egPc, history, egCall>>
    /\ UNCHANGED nonEngageVars

\* services.py 114-132: one call of log_candidate_engagement(c, type).
LogCandidateEngagement ==
    /\ egPc = "run"
    /\ \E c \in CandidateIds, type \in EngagementTypes :
        /\ history' = IF ~RecentLog(c, now)
                         THEN Append(history, EngagementRow(c, type, now))
                         ELSE history
        /\ egCall' = [candidate |-> c, type |-> type, at |-> now,
                      ret |-> ~RecentLog(c, now), rows |-> Len(history)]
    /\ UNCHANGED <<egPc, now>>
    /\ UNCHANGED nonEngageVars

NextEngage ==
    \/ Tick
    \/ LogCandidateEngagement

SpecEngage == InitEngage /\ [][NextEngage]_vars

\* C10: an event of a candidate that arrives while a row of that candidate
\* is less than one hour old creates no row and returns False; an event
\* that arrives when there is no such row (none at all, or the latest one
\* hour old or older) creates exactly one row, stamped with the time of the
\* event, and returns True.  So two rows of one candidate are always at
\* least one hour apart.
C10_OneRecordPerHour ==
    /\ egCall.candidate # "" =>
          LET before == SubSeq(history, 1, egCall.rows)
              fresh == \E i \in 1..Len(before) :
                          /\ before[i].candidate = egCall.candidate
                          /\ egCall.at - before[i].timestamp < HourTicks
          IN  IF fresh
                  THEN egCall.ret = FALSE /\ Len(history) = egCall.rows
                  ELSE /\ egCall.ret = TRUE
                       /\ Len(history) = egCall.rows + 1
                       /\ history[Len(history)].candidate = egCall.candidate
                       /\ history[Len(history)].timestamp = egCall.at
    /\ \A i \in 1..Len(history) : \A j \in (i + 1)..Len(history) :
          history[i].candidate = history[j].candidate =>
              history[j].timestamp - history[i].timestamp >= HourTicks

\* Candidate c1 has two rows exactly one hour apart, and a later event of
\* c1, less than an hour after the second row, was refused.
C10_Witness ==
    /\ Len(history) = 2
    /\ history[1].candidate = "c1" /\ history[2].candidate = "c1"
    /\ history[2].timestamp - history[1].timestamp = HourTicks
    /\ egCall.candidate = "c1"
    /\ egCall.at > history[2].timestamp
    /\ egCall.ret = FALSE

----------------------------------------------------------------------------
(* ------- CandidateDetailView.get_context_data and global_search ------- *)

\* The requests that may be in flight together.
NumRequests == 2

TrafficMaxTime == 2

\* The Candidate rows the requests work on, in database order.
SearchableCandidates ==
    << [id |-> "c1", name |-> <<"R", "a", "m">>, party |-> <<"U">>, bio |-> <<"x">>],
       [id |-> "c2", name |-> <<"S", "i", "t", "a">>, party |-> <<"U">>, bio |-> <<"r">>] >>

TrafficIds == {SearchableCandidates[k].id : k \in 1..Len(SearchableCandidates)}

\* The q parameter of a search request, before strip().
TrafficQueries ==
    {<<>>, <<" ">>, <<"r">>, <<"S", "I", " ">>, <<"u">>, <<"z">>}

\* views.py 227-229: name__icontains, party__icontains or bio__icontains.
IContains(field, q) == Contains(LowerStr(field), LowerStr(q))

\* views.py 226-230: the ids the filter selects, in database order.
MatchingCandidates(q) ==
    LET hit(k) == \/ IContains(SearchableCandidates[k].name, q)
                  \/ IContains(SearchableCandidates[k].party, q)
                  \/ IContains(SearchableCandidates[k].bio, q)
        F[k \in 0..Len(SearchableCandidates)] ==
            IF k = 0 THEN <<>>
            ELSE IF hit(k) THEN Append(F[k - 1], SearchableCandidates[k].id)
            ELSE F[k - 1]
    IN  F[Len(SearchableCandidates)]

InSeq(x, sq) == \E k \in 1..Len(sq) : sq[k] = x

FIncrement_loaded(stored, loaded) == loaded + 1

\* views.py 52, 232: F('view_count') + 1 and F('search_count') + 1 are
\* evaluated by the database inside the UPDATE statement, on the stored
\* value, not on the value the request loaded.
FIncrement(stored, loaded) == stored + 1

NewRequest == [kind |-> "none", pc |-> "new", obj |-> "", q |-> <<>>,
               loaded |-> 0, pending |-> <<>>]

InitTraffic ==
    /\ IdleAI /\ IdleParse /\ IdleSearch /\ IdleCtx /\ IdleEngage /\ IdleChatbot /\ IdleSession /\ IdleUpload /\ IdleSlug /\ IdleRequest /\ IdleRace /\ IdlePdf /\ IdleReport /\ IdleIntel
    /\ trReq = [p \in 1..NumRequests |-> NewRequest]
    /\ trBase \in {[view |-> v, search |-> s] : v \in {0, 1}, s \in {0, 1}}
    /\ view_count = [c \in TrafficIds |-> trBase.view]
    /\ search_count = [c \in TrafficIds |-> trBase.search]

\* DetailView.get(): get_object() loads the candidate of the page.
DetailGet(p) ==
    /\ trReq[p].pc = "new"
    /\ \E c \in TrafficIds :
          trReq' = [trReq EXCEPT ![p] = [@ EXCEPT !.kind = "detail", !.pc = "update",
                                            !.obj = c, !.loaded = view_count[c]]]
    /\ UNCHANGED <<view_count, search_count, trBase, now, history>>
    /\ UNCHANGED nonTrafficVars

\* views.py 52-53: one UPDATE statement on the candidate's row.
DetailUpdate(p) ==
    /\ trReq[p].kind = "detail" /\ trReq[p].pc = "update"
    /\ view_count' = [view_count EXCEPT ![trReq[p].obj] =
                          FIncrement(view_count[trReq[p].obj], trReq[p].loaded)]
    /\ trReq' = [trReq EXCEPT ![p].pc = "log"]
    /\ UNCHANGED <<search_count, trBase, now, history>>
    /\ UNCHANGED nonTrafficVars

\* views.py 56: the view is logged, whatever the table holds already.
DetailLog(p) ==
    /\ trReq[p].kind = "detail" /\ trReq[p].pc = "log"
    /\ history' = Append(history, EngagementRow(trReq[p].obj, "view", now))
    /\ trReq' = [trReq EXCEPT ![p].pc = "done"]
    /\ UNCHANGED <<view_count, search_count, trBase, now>>
    /\ UNCHANGED nonTrafficVars

\* views.py 223-225: the query is stripped; an empty one does nothing.
SearchStart(p) ==
    /\ trReq[p].pc = "new"
    /\ \E q \in TrafficQueries :
          trReq' = [trReq EXCEPT ![p] =
                       [@ EXCEPT !.kind = "search", !.q = StripWs(q),
                                 !.pc = IF StripWs(q) = <<>> THEN "done" ELSE "update"]]
    /\ UNCHANGED <<view_count, search_count, trBase, now, history>>
    /\ UNCHANGED nonTrafficVars

\* views.py 232: one UPDATE statement on every row the filter selects.
SearchUpdate(p) ==
    /\ trReq[p].kind = "search" /\ trReq[p].pc = "update"
    /\ search_count' = [c \in TrafficIds |->
                           IF InSeq(c, MatchingCandidates(trReq[p].q))
                               THEN FIncrement(search_count[c], search_count[c])
                               ELSE search_count[c]]
    /\ trReq' = [trReq EXCEPT ![p].pc = "select"]
    /\ UNCHANGED <<view_count, trBase, now, history>>
    /\ UNCHANGED nonTrafficVars

\* views.py 235: iterating the queryset runs the filter as a SELECT.
SearchSelect(p) ==
    /\ trReq[p].kind = "search" /\ trReq[p].pc = "select"
    /\ trReq' = [trReq EXCEPT ![p].pc = "log",
                              ![p].pending = MatchingCandidates(trReq[p].q)]
    /\ UNCHANGED <<view_count, search_count, trBase, now, history>>
    /\ UNCHANGED nonTrafficVars

\* views.py 235-236: one row for the next matched candidate.
SearchLog(p) ==
    /\ trReq[p].kind = "search" /\ trReq[p].pc = "log"
    /\ trReq[p].pending # <<>>
    /\ history' = Append(history, EngagementRow(Head(trReq[p].pending), "search", now))
    /\ trReq' = [trReq EXCEPT ![p].pending = Tail(@)]
    /\ UNCHANGED <<view_count, search_count, trBase, now>>
    /\ UNCHANGED nonTrafficVars

\* views.py 238: the loop is over, the page is rendered.
SearchRender(p) ==
    /\ trReq[p].kind = "search" /\ trReq[p].pc = "log"
    /\ trReq[p].pending = <<>>
    /\ trReq' = [trReq EXCEPT ![p].pc = "done"]
    /\ UNCHANGED <<view_count, search_count, trBase, now, history>>
    /\ UNCHANGED nonTrafficVars

\* Time passes.
TrafficTick ==
    /\ trReq # <<>>
    /\ now < TrafficMaxTime
    /\ now' = now + 1
    /\ UNCHANGED <<trReq, view_count, search_count, trBase, history>>
    /\ UNCHANGED nonTrafficVars

NextTraffic ==
    \/ \E p \in 1..NumRequests : DetailGet(p)
    \/ \E p \in 1..NumRequests : DetailUpdate(p)
    \/ \E p \in 1..NumRequests : DetailLog(p)
    \/ \E p \in 1..NumRequests : SearchStart(p)
    \/ \E p \in 1..NumRequests : SearchUpdate(p)
    \/ \E p \in 1..NumRequests : SearchSelect(p)
    \/ \E p \in 1..NumRequests : SearchLog(p)
    \/ \E p \in 1..NumRequests : SearchRender(p)
    \/ TrafficTick

SpecTraffic == InitTraffic /\ [][NextTraffic]_vars

\* C11: the EngagementHistory table never holds two rows of one candidate
\* less than one hour apart: a view or a search hit of a candidate less
\* than one hour after a recorded one adds no row.
C11_OneRowPerHourWindow ==
    \A i \in 1..Len(history) : \A j \in (i + 1)..Len(history) :
        history[i].candidate = history[j].candidate =>
            history[j].timestamp - history[i].timestamp >= HourTicks

\* The requests that have executed their UPDATE on candidate c.
ViewsCounted(c) ==
    {p \in 1..NumRequests :
        /\ trReq[p].kind = "detail" /\ trReq[p].obj = c
        /\ trReq[p].pc \in {"log", "done"}}

SearchesCounted(c) ==
    {p \in 1..NumRequests :
        /\ trReq[p].kind = "search" /\ trReq[p].q # <<>>
        /\ trReq[p].pc \in {"select", "log", "done"}
        /\ InSeq(c, MatchingCandidates(trReq[p].q))}

\* C19: in every interleaving of the requests, view_count of a candidate is
\* its initial value plus the number of detail views of the candidate that
\* have executed their update, and search_count is its initial value plus
\* the number of searches matching the candidate that have executed
\* theirs; so N concurrent requests end at the initial value plus N.
C19_NoLostUpdate ==
    \A c \in TrafficIds :
        /\ view_count[c] = trBase.view + Cardinality(ViewsCounted(c))
        /\ search_count[c] = trBase.search + Cardinality(SearchesCounted(c))

\* Two detail views of c1 overlapped (both loaded the candidate before
\* either wrote) and both are finished; two searches matching c2 likewise.
C19_Witness ==
    \/ /\ \A p \in 1..NumRequests : trReq[p].kind = "detail" /\ trReq[p].obj = "c1"
       /\ \A p \in 1..NumRequests : trReq[p].pc = "done" /\ trReq[p].loaded = trBase.view
       /\ view_count["c1"] = trBase.view + NumRequests
    \/ /\ \A p \in 1..NumRequests : trReq[p].kind = "search" /\ trReq[p].pc = "done"
       /\ \A p \in 1..NumRequests : InSeq("c2", MatchingCandidates(trReq[p].q))
       /\ \A p \in 1..NumRequests : trReq[p].q # <<>>
       /\ search_count["c2"] = trBase.search + NumRequests

----------------------------------------------------------------------------
(* ------------------------ get_chatbot_response ------------------------ *)

\* The longest context_data and web_results handed to the engine.
MaxContextLen == 6

\* The longest history handed to the engine.
MaxTurns == 8

\* utils.py 224: history[-6:]
ChatPromptTurns == 6

\* A text of n characters.
TextOfLen(n) == [k \in 1..n |-> "x"]

\* One entry of a session history: who spoke, and which text it was (the
\* n-th query of a conversation, or the reply to it).
Turn(role, ns, n) == [role |-> role, content |-> [ns |-> ns, n |-> n]]

\* A conversation of n entries: queries and replies alternate.
TurnsOfLen(ns, n) ==
    [k \in 1..n |-> Turn(IF k % 2 = 1 THEN "user" ELSE "assistant", ns, (k + 1) \div 2)]

\* sq[-n:]
LastN(sq, n) ==
    IF Len(sq) <= n THEN sq ELSE SubSeq(sq, Len(sq) - n + 1, Len(sq))

\* sq[:n]
FirstN(sq, n) == IF Len(sq) <= n THEN sq ELSE SubSeq(sq, 1, n)

\* utils.py 234: the fixed text used when web_results is empty, as one unit.
WebUnreachable == <<"Web Intelligence currently unreachable.">>

\* utils.py 237
NoLocalRecords == <<"No local matching records found.">>

\* utils.py 240
NewConversation == <<[speaker |-> "", content |-> [ns |-> "New conversation.", n |-> 0]]>>

\* utils.py 224: one line for each of the last six entries.
HistoryLines(h, assistant) ==
    [k \in 1..Len(LastN(h, ChatPromptTurns)) |->
        [speaker |-> IF LastN(h, ChatPromptTurns)[k].role = "user" THEN "User" ELSE assistant,
         content |-> LastN(h, ChatPromptTurns)[k].content]]

\* utils.py 222-250: the blocks of the prompt that depend on the arguments.
\* web_results and context_data are interpolated whole.
ChatbotPrompt(user_query, context_data, h, web_results) ==
    [web |-> IF web_results = <<>> THEN WebUnreachable ELSE web_results,
     local |-> IF context_data = <<>> THEN NoLocalRecords ELSE context_data,
     turns |-> IF h = <<>> THEN NewConversation ELSE HistoryLines(h, "VVN-AI"),
     query |-> user_query]

InitChatbot ==
    /\ IdleAI /\ IdleParse /\ IdleSearch /\ IdleCtx /\ IdleEngage /\ IdleTraffic /\ IdleSession /\ IdleUpload /\ IdleSlug /\ IdleRequest /\ IdleRace /\ IdlePdf /\ IdleReport /\ IdleIntel
    /\ cbPc = "start"
    /\ cbContext \in {TextOfLen(n) : n \in 0..MaxContextLen}
    /\ cbWeb \in {TextOfLen(n) : n \in 0..MaxContextLen}
    /\ cbHistory \in {TurnsOfLen("chat", n) : n \in 0..MaxTurns}
    /\ cbPrompt = [web |-> <<>>, local |-> <<>>, turns |-> <<>>, query |-> 0]

\* One call of get_chatbot_response, up to the call of get_ai_response.
GetChatbotResponse ==
    /\ cbPc = "start"
    /\ cbPc' = "done"
    /\ cbPrompt' = ChatbotPrompt(1, cbContext, cbHistory, cbWeb)
    /\ UNCHANGED <<cbContext, cbWeb, cbHistory>>
    /\ UNCHANGED nonChatbotVars

NextChatbot == GetChatbotResponse

SpecChatbot == InitChatbot /\ [][NextChatbot]_vars

\* C20: the local-context block and the web-context block of the prompt
\* are each cut to a fixed budget: however long context_data and
\* web_results are, each block is shorter than the longest text the engine
\* is given.
C20_BlocksBounded ==
    cbPc = "done" =>
        /\ Len(cbPrompt.web) < MaxContextLen
        /\ Len(cbPrompt.local) < MaxContextLen

----------------------------------------------------------------------------
(* --------------------- chat_view and analysis_lab --------------------- *)

MaxChatRequests == 6

MaxLabChats == 4

MaxUploads == 1

\* The most files one upload request carries.
MaxFiles == 3

\* views.py 168: history[-10:]
ChatHistoryCap == 10

\* views.py 283: lab_history[-6:]
LabHistoryCap == 6

\* views.py 260: lab_history[-4:]
LabPromptTurns == 4

\* views.py 264: doc_context[:20000]
LabContextBudget == 20000

\* views.py 323, 335: text[:10000]
SessionTextBudget == 10000

\* views.py 355: context_for_session[:5000]
SavedContextBudget == 5000

\* utils.py 162: manifesto_text[:15000]
VisionTextBudget == 15000

\* utils.py 192, 195: documents[k]['text'][:12000]
CompareTextBudget == 12000

ChatHistoryKey == "chat_history"

LabHistoryKey_shared == "chat_history"

LabHistoryKey == "research_lab_history"

LabContextKey == "research_lab_context"

LabResultKey == "research_lab_last_result"

SessionKeys == {"chat_history", "research_lab_history", "research_lab_context",
                "research_lab_last_result"}

\* A key the session does not hold.
Unset == [set |-> FALSE, val |-> <<>>]

\* request.session.get(key, default)
SessionGet(s, key, default) == IF s[key].set THEN s[key].val ELSE default

\* request.session[key] = val
SessionSet(s, key, val) == [s EXCEPT ![key] = [set |-> TRUE, val |-> val]]

\* len(text[:budget]) for a text of n characters.
Clip(n, budget) == IF n <= budget THEN n ELSE budget

TrimChat_head(h) == FirstN(h, ChatHistoryCap)

\* views.py 168
TrimChat(h) == LastN(h, ChatHistoryCap)

\* views.py 283
TrimLab(h) == LastN(h, LabHistoryCap)

\* views.py 150: what get_relevant_context returned for the query.
ChatContexts == {[local |-> <<>>, web |-> TextOfLen(3)],
                 [local |-> TextOfLen(2), web |-> <<>>]}

\* views.py 255: the text used when the session holds no lab context.
NoDocumentContext ==
    <<[label |-> "", name |-> "No document context available.", text |-> 0]>>

\* views.py 267
FirstQuery == <<[speaker |-> "", content |-> [ns |-> "First query.", n |-> 0]]>>

\* views.py 260: one line for each of the last four lab entries.
LabHistoryLines(h) ==
    [k \in 1..Len(LastN(h, LabPromptTurns)) |->
        [speaker |-> IF LastN(h, LabPromptTurns)[k].role = "user" THEN "User" ELSE "Analyst",
         content |-> LastN(h, LabPromptTurns)[k].content]]

\* views.py 262-276: the blocks of the lab prompt that depend on the
\* request; the context block is the first LabContextBudget characters of
\* the stored context.
LabPrompt(user_query, doc_context, lab_history) ==
    [context |-> [of |-> doc_context, limit |-> LabContextBudget],
     turns |-> IF lab_history = <<>> THEN FirstQuery ELSE LabHistoryLines(lab_history),
     query |-> user_query]

\* utils.py 156-178: the prompt of the single-document analysis; a text is
\* represented by its length.
VisionPrompt(text, name) ==
    [kind |-> "vision", docs |-> <<[name |-> name, text |-> Clip(text, VisionTextBudget)]>>]

\* utils.py 180-205: what analyze_multiple_manifestos hands to the LLM
\* adapter (kind "none": it returns a fixed text and makes no call).
AnalyzeMultipleManifestos(documents) ==
    IF documents = <<>> THEN [kind |-> "none", docs |-> <<>>]
    ELSE IF Len(documents) = 1
        THEN VisionPrompt(documents[1].text, documents[1].name)
    ELSE [kind |-> "compare",
          docs |-> <<[name |-> documents[1].name,
                      text |-> Clip(documents[1].text, CompareTextBudget)],
                     [name |-> documents[2].name,
                      text |-> Clip(documents[2].text, CompareTextBudget)]>>]

\* The k-th file of an upload request: f.name and the extracted text.
UploadedFile(k) ==
    [name |-> "file" \o ToString(k),
     text |-> IF k = 1 THEN 100 ELSE IF k = 2 THEN 13000 ELSE 40000]

UploadedFiles(n) == [k \in 1..n |-> UploadedFile(k)]

\* The candidates a request may select: c1 has a manifesto with a PDF, c2
\* has no manifesto, c9 is not in the table.
LabSelectable == {"c1", "c2", "c9"}

SelectedLists == UNION {[1..n -> LabSelectable] : n \in 0..2}

\* views.py 329-337: the documents one selected candidate contributes.
CandidateDocuments(cid) ==
    IF cid = "c1" THEN <<[name |-> "Candidate: Ram", text |-> 16000]>> ELSE <<>>

RECURSIVE SelectedDocuments(_)
SelectedDocuments(selected) ==
    IF selected = <<>> THEN <<>>
    ELSE CandidateDocuments(Head(selected)) \o SelectedDocuments(Tail(selected))

\* views.py 319-337: documents before the limit of line 340.
CollectedDocuments(files, selected) ==
    FirstN(files, 2) \o SelectedDocuments(selected)

\* views.py 323, 335: context_for_session, one part for each collected
\* document.
ContextForSession(files, selected) ==
    [k \in 1..Len(FirstN(files, 2)) |->
        [label |-> "FILE", name |-> files[k].name,
         text |-> Clip(files[k].text, SessionTextBudget)]]
    \o [k \in 1..Len(SelectedDocuments(selected)) |->
        [label |-> "CANDIDATE", name |-> SelectedDocuments(selected)[k].name,
         text |-> Clip(SelectedDocuments(selected)[k].text, SessionTextBudget)]]

LimitDocuments_all(documents) == documents

\* views.py 340
LimitDocuments(documents) == FirstN(documents, 2)

NoChatPrompt == [web |-> <<>>, local |-> <<>>, turns |-> <<>>, query |-> 0]

NoLabPrompt == [context |-> [of |-> <<>>, limit |-> 0], turns |-> <<>>, query |-> 0]

NoAnalysisPrompt == [kind |-> "none", docs |-> <<>>]

NoRequest == [kind |-> "none", chat_prompt |-> NoChatPrompt, lab_prompt |-> NoLabPrompt,
              analysis_prompt |-> NoAnalysisPrompt, received |-> <<>>, documents |-> <<>>]

InitSession ==
    /\ IdleAI /\ IdleParse /\ IdleSearch /\ IdleCtx /\ IdleEngage /\ IdleTraffic /\ IdleChatbot /\ IdleUpload /\ IdleSlug /\ IdleRequest /\ IdleRace /\ IdlePdf /\ IdleReport /\ IdleIntel
    /\ sePc = "run"
    /\ session = [k \in SessionKeys |-> Unset]
    /\ analyses = <<>>
    /\ seChatN = 0
    /\ seLabN = 0
    /\ chatLog = <<>>
    /\ labLog = <<>>
    /\ seLast = NoRequest

\* views.py 141-179: a chat request that is answered.
ChatView ==
    /\ sePc = "run"
    /\ seChatN < MaxChatRequests
    /\ \E ctx \in ChatContexts :
        LET n == seChatN + 1
            h == SessionGet(session, ChatHistoryKey, <<>>)
            added == <<Turn("user", "chat", n), Turn("assistant", "chat", n)>>
        IN  /\ seLast' = [NoRequest EXCEPT !.kind = "chat",
                              !.chat_prompt = ChatbotPrompt(n, ctx.local, h, ctx.web)]
            /\ session' = SessionSet(session, ChatHistoryKey, TrimChat(h \o added))
            /\ chatLog' = chatLog \o added
            /\ seChatN' = n
    /\ UNCHANGED <<sePc, analyses, seLabN, labLog>>
    /\ UNCHANGED nonSessionVars

\* views.py 143-150, 181-183: a chat request with an empty query, or one
\* that fails before the history is touched.
ChatViewRejected ==
    /\ sePc = "run"
    /\ seLast' = [NoRequest EXCEPT !.kind = "chat_rejected"]
    /\ UNCHANGED <<sePc, session, analyses, seChatN, seLabN, chatLog, labLog>>
    /\ UNCHANGED nonSessionVars

\* views.py 249-294: a lab chat request that is answered.
LabChat ==
    /\ sePc = "run"
    /\ seLabN < MaxLabChats
    /\ LET n == seLabN + 1
           doc_context == SessionGet(session, LabContextKey, NoDocumentContext)
           h == SessionGet(session, LabHistoryKey, <<>>)
           added == <<Turn("user", "lab", n), Turn("assistant", "lab", n)>>
       IN  /\ seLast' = [NoRequest EXCEPT !.kind = "lab_chat",
                             !.lab_prompt = LabPrompt(n, doc_context, h)]
           /\ session' = SessionSet(session, LabHistoryKey, TrimLab(h \o added))
           /\ labLog' = labLog \o added
           /\ seLabN' = n
    /\ UNCHANGED <<sePc, analyses, seChatN, chatLog>>
    /\ UNCHANGED nonSessionVars

\* views.py 303-308: GET with clear=1.
LabClear ==
    /\ sePc = "run"
    /\ session' = SessionSet(SessionSet(SessionSet(session,
                      LabHistoryKey, <<>>), LabContextKey, <<>>), LabResultKey, <<>>)
    /\ labLog' = <<>>
    /\ seLast' = [NoRequest EXCEPT !.kind = "clear"]
    /\ UNCHANGED <<sePc, analyses, seChatN, seLabN, chatLog>>
    /\ UNCHANGED nonSessionVars

\* views.py 310-360: POST with files and selected candidates.
LabUpload ==
    /\ sePc = "run"
    /\ Len(analyses) < MaxUploads
    /\ \E nf \in 0..MaxFiles, selected \in SelectedLists :
        LET files == UploadedFiles(nf)
            documents == LimitDocuments(CollectedDocuments(files, selected))
            context == ContextForSession(files, selected)
            prompt == AnalyzeMultipleManifestos(documents)
        IN  /\ seLast' = [NoRequest EXCEPT !.kind = "upload",
                              !.received = files \o SelectedDocuments(selected),
                              !.documents = documents,
                              !.analysis_prompt = IF documents # <<>> THEN prompt
                                                  ELSE NoAnalysisPrompt]
            /\ IF documents # <<>>
                  THEN /\ session' = SessionSet(SessionSet(SessionSet(session,
                                         LabContextKey, context), LabHistoryKey, <<>>),
                                         LabResultKey, <<prompt>>)
                       /\ labLog' = <<>>
                       /\ analyses' = Append(analyses,
                              [title |-> [k \in 1..Len(documents) |-> documents[k].name],
                               documents_count |-> Len(documents),
                               analysis_content |-> prompt,
                               context_used |-> [of |-> context, limit |-> SavedContextBudget]])
                  ELSE UNCHANGED <<session, labLog, analyses>>
    /\ UNCHANGED <<sePc, seChatN, seLabN, chatLog>>
    /\ UNCHANGED nonSessionVars

NextSession ==
    \/ ChatView
    \/ ChatViewRejected
    \/ LabChat
    \/ LabClear
    \/ LabUpload

SpecSession == InitSession /\ [][NextSession]_vars

\* The names of the documents a prompt was built from.
PromptNames(prompt) == [k \in 1..Len(prompt.docs) |-> prompt.docs[k].name]

\* C12: one document gives the single-document prompt, two give the
\* comparative prompt over both; when the lab receives more than two
\* documents (uploaded files, then selected candidates), the first two are
\* the ones analysed; documents_count of a ResearchAnalysis row is the
\* number of documents analysed and never more than 2.
C12_AnalysisRouting ==
    /\ seLast.kind = "upload" =>
          /\ seLast.documents = FirstN(seLast.received, 2)
          /\ Len(seLast.received) > 2 => Len(seLast.documents) = 2
          /\ Len(seLast.documents) = 1 =>
                /\ seLast.analysis_prompt.kind = "vision"
                /\ PromptNames(seLast.analysis_prompt) = <<seLast.documents[1].name>>
          /\ Len(seLast.documents) = 2 =>
                /\ seLast.analysis_prompt.kind = "compare"
                /\ PromptNames(seLast.analysis_prompt) =
                       <<seLast.documents[1].name, seLast.documents[2].name>>
    /\ \A i \in 1..Len(analyses) :
          /\ analyses[i].documents_count <= 2
          /\ analyses[i].documents_count = Len(analyses[i].analysis_content.docs)

\* An upload of three files and a candidate with a manifesto: the first
\* two files were compared and the row counts 2 documents.
C12_Witness ==
    /\ seLast.kind = "upload"
    /\ Len(seLast.received) = 4
    /\ seLast.analysis_prompt.kind = "compare"
    /\ PromptNames(seLast.analysis_prompt) = <<"file1", "file2">>
    /\ Len(analyses) = 1 /\ analyses[1].documents_count = 2

\* The parts of a context that begin within its first limit characters.
PartsWithin(parts, limit) ==
    SelectSeq([k \in 1..Len(parts) |->
                  [name |-> parts[k].name,
                   start |-> IF k = 1 THEN 0
                             ELSE LET RECURSIVE Chars(_)
                                      Chars(n) == IF n = 0 THEN 0
                                                  ELSE parts[n].text + Chars(n - 1)
                                  IN  Chars(k - 1)]],
              LAMBDA part : part.start < limit)

\* Every part is the content of one of the documents.
OnlyFrom(parts, documents) ==
    \A k \in 1..Len(parts) :
        \E d \in 1..Len(documents) : documents[d].name = parts[k].name

\* C28: after a submission that was analysed, research_lab_context and the
\* context_used of the ResearchAnalysis row hold content only of the (at
\* most two) documents passed to analyze_multiple_manifestos, and
\* research_lab_history is empty.
C28_ContextOfAnalysed ==
    (seLast.kind = "upload" /\ seLast.documents # <<>>) =>
        /\ Len(seLast.documents) <= 2
        /\ OnlyFrom(SessionGet(session, "research_lab_context", <<>>), seLast.documents)
        /\ OnlyFrom(PartsWithin(analyses[Len(analyses)].context_used.of,
                                analyses[Len(analyses)].context_used.limit),
                    seLast.documents)
        /\ SessionGet(session, "research_lab_history", <<"unset">>) = <<>>

\* What holds: the context has one part for each document collected before
\* the limit of two is applied (up to two files, then every selected
\* candidate with a manifesto), and the history is emptied.
C28_ContextOfCollected ==
    (seLast.kind = "upload" /\ seLast.documents # <<>>) =>
        LET context == SessionGet(session, "research_lab_context", <<>>)
            collected == FirstN(SelectSeq(seLast.received,
                                          LAMBDA d : d.name \in {"file1", "file2"}), 2)
                         \o SelectSeq(seLast.received,
                                      LAMBDA d : d.name \notin {"file1", "file2", "file3", "file4", "file5"})
        IN  /\ Len(context) = Len(collected)
            /\ \A k \in 1..Len(context) : context[k].name = collected[k].name
            /\ analyses[Len(analyses)].context_used.of = context
            /\ SessionGet(session, "research_lab_history", <<"unset">>) = <<>>

\* C16: chat_history holds at most 10 entries, the most recent entries of
\* the answered chat requests in order; research_lab_history holds at most
\* 6, the most recent entries of the answered lab chats (since the lab
\* history was last emptied) in order.
C16_HistoryBounded ==
    /\ Len(SessionGet(session, "chat_history", <<>>)) <= 10
    /\ SessionGet(session, "chat_history", <<>>) = LastN(chatLog, 10)
    /\ Len(SessionGet(session, "research_lab_history", <<>>)) <= 6
    /\ SessionGet(session, "research_lab_history", <<>>) = LastN(labLog, 6)

\* Both histories have dropped their oldest entries.
C16_Witness ==
    /\ Len(chatLog) > 10 /\ Len(labLog) > 6
    /\ Len(session["chat_history"].val) = 10
    /\ session["chat_history"].val[1] = Turn("user", "chat", 2)
    /\ Len(session["research_lab_history"].val) = 6
    /\ session["research_lab_history"].val[1] = Turn("user", "lab", 2)

\* C17: a chat request leaves the three lab keys of the session as they
\* were, a lab request (chat, upload, clear) leaves chat_history as it was,
\* the lab prompt holds no turn of the main chat and the main-chat prompt
\* holds no turn of the lab.
C17_NamespacesIndependent ==
    [][ /\ seLast'.kind \in {"chat", "chat_rejected"} =>
              /\ session'["research_lab_history"] = session["research_lab_history"]
              /\ session'["research_lab_context"] = session["research_lab_context"]
              /\ session'["research_lab_last_result"] = session["research_lab_last_result"]
        /\ seLast'.kind \in {"lab_chat", "upload", "clear"} =>
              session'["chat_history"] = session["chat_history"]
        /\ \A k \in 1..Len(seLast'.lab_prompt.turns) :
              seLast'.lab_prompt.turns[k].content.ns # "chat"
        /\ \A k \in 1..Len(seLast'.chat_prompt.turns) :
              seLast'.chat_prompt.turns[k].content.ns # "lab" ]_vars

\* A chat request was answered from a chat history of its own while the
\* session held a lab history, a lab context and a lab result.
C17_Witness ==
    /\ seLast.kind = "chat"
    /\ Len(seLast.chat_prompt.turns) = 2
    /\ seLast.chat_prompt.turns[1].content = [ns |-> "chat", n |-> 1]
    /\ session["research_lab_history"].val # <<>>
    /\ session["research_lab_context"].val # <<>>
    /\ session["research_lab_last_result"].val # <<>>

----------------------------------------------------------------------------
(* ---- process_manifesto_upload and get_candidate_intelligence_report --- *)

\* The most pieces a reply is put together from.
MaxReplyPieces == 3

\* services.py 69, 73: text_content[:500]
SummaryBudget == 500

\* What is left of an opening fence whose three backticks closed the
\* block before it: the word json.
JsonWord == "json"

\* The replies of the LLM: pieces of text put together.
ReplyPieces ==
    { <<Prose>>, <<Ws>>, <<FenceOpen>>, <<FenceClose>>, <<RBrace>>,
      <<FenceOpen, Ws, LBrace, SummaryPair, Comma, PromisesPair, RBrace, Ws, FenceClose>>,
      <<FenceOpen, LBrace, SummaryPair, RBrace, FenceClose>>,
      <<FenceOpen, LBrace, PromisesPair, RBrace, FenceClose>>,
      <<FenceOpen, LBrace, SummaryPair, Comma, RBrace, FenceClose>>,
      <<FenceOpen, LBrace, RBrace, FenceClose>>,
      <<LBrace, PromisesPair, Comma, SummaryPair, RBrace>>,
      <<LBrace, Key, LBrace, SummaryPair, RBrace, RBrace>> }

Replies ==
    {Concat(ps) : ps \in UNION {[1..n -> ReplyPieces] : n \in 0..MaxReplyPieces}}

\* The lengths of the document text: empty, one character, a whole PDF.
UploadTextLens == {0, 1, 40000}

\* A string held by a field: where it came from, its text when it is a
\* JSON value, its length.
NullValue == [src |-> "null", val |-> "", len |-> 0]

EmptyString == [src |-> "literal", val |-> "", len |-> 0]

JsonString(v) == [src |-> "json", val |-> v, len |-> 1]

\* text_content[:500]
TextPrefix(n) == [src |-> "text", val |-> "", len |-> Clip(n, SummaryBudget)]

\* Whether the parsed object has the member as one of its own members
\* (not a member of an object nested in it).
HasMember(obj, member) ==
    \E k \in 1..Len(obj) :
        /\ obj[k] = member
        /\ Cardinality({x \in 1..(k - 1) : obj[x] = LBrace})
              - Cardinality({x \in 1..(k - 1) : obj[x] = RBrace}) = 1

DictGet_default(obj, member, value, default) == default

\* structured_data.get(key, default) for the two keys of the analysis.
DictGet(obj, member, value, default) ==
    IF HasMember(obj, member) THEN JsonString(value) ELSE default

\* bool(structured_data): None and the empty object are false.
Truthy(parsed) == parsed.kind = "value" /\ parsed.val # <<LBrace, RBrace>>

NewManifesto ==
    [vision_summary |-> NullValue, key_promises |-> NullValue,
     ai_vision_analysis |-> [null |-> TRUE, text |-> <<>>], saved |-> FALSE]

\* services.py 71, 74: ai_vision_analysis = raw_analysis on both branches.
StoredAnalysis(raw, parsed) == [null |-> FALSE, text |-> raw]

\* services.py 66-76: the fields of the row after the call.
ProcessedManifesto(m, raw, n) ==
    LET structured_data == parse_structured_response(raw) IN
    IF Truthy(structured_data)
        THEN [m EXCEPT !.vision_summary =
                           DictGet(structured_data.val, SummaryPair, "S", TextPrefix(n)),
                       !.key_promises =
                           DictGet(structured_data.val, PromisesPair, "P", EmptyString),
                       !.ai_vision_analysis = StoredAnalysis(raw, structured_data),
                       !.saved = TRUE]
        ELSE [m EXCEPT !.vision_summary = TextPrefix(n),
                       !.ai_vision_analysis = StoredAnalysis(raw, structured_data),
                       !.saved = TRUE]

\* services.py 102: every match of the fenced pattern is deleted, from
\* left to right.  A match runs from an opening fence to the next three
\* backticks; when those belong to another opening fence, its word json
\* stays in the text.
RECURSIVE RemoveFences(_)
RemoveFences(t) ==
    LET opens == {i \in 1..Len(t) : t[i] = FenceOpen} IN
    IF opens = {} THEN t
    ELSE LET i == Min(opens)
             closers == {j \in (i + 1)..Len(t) : t[j] \in {FenceOpen, FenceClose}}
         IN  IF closers = {} THEN t
             ELSE SubSeq(t, 1, i - 1)
                  \o (IF t[Min(closers)] = FenceOpen THEN <<JsonWord>> ELSE <<>>)
                  \o RemoveFences(SubSeq(t, Min(closers) + 1, Len(t)))

\* services.py 102: report_content
ReportContent(raw) == StripWs(RemoveFences(raw))

InitUpload ==
    /\ IdleAI /\ IdleParse /\ IdleSearch /\ IdleCtx /\ IdleEngage /\ IdleTraffic /\ IdleChatbot /\ IdleSession /\ IdleSlug /\ IdleRequest /\ IdleRace /\ IdlePdf /\ IdleReport /\ IdleIntel
    /\ upPc = "start"
    /\ rpPc = "start"
    /\ upReply \in Replies
    /\ upText \in UploadTextLens
    /\ manifesto = NewManifesto
    /\ upReport = <<>>

\* One call of process_manifesto_upload(manifesto, upReply, text).
ProcessManifestoUpload ==
    /\ upPc = "start"
    /\ upPc' = "saved"
    /\ manifesto' = ProcessedManifesto(manifesto, upReply, upText)
    /\ UNCHANGED <<rpPc, upReply, upText, upReport>>
    /\ UNCHANGED nonUploadVars

\* services.py 100-105: the report generated from the reply upReply.
StoreReport ==
    /\ rpPc = "start"
    /\ rpPc' = "done"
    /\ upReport' = ReportContent(upReply)
    /\ UNCHANGED <<upPc, upReply, upText, manifesto>>
    /\ UNCHANGED nonUploadVars

NextUpload ==
    \/ ProcessManifestoUpload
    \/ StoreReport

SpecUpload == InitUpload /\ [][NextUpload]_vars

\* A fenced block of the reply opens at t[i]: an opening fence with a
\* fence somewhere after it.
BlockAt(t, i) ==
    /\ t[i] = FenceOpen
    /\ \E j \in (i + 1)..Len(t) : t[j] \in {FenceOpen, FenceClose}

\* The content of the block that opens at t[i].
BlockContent(t, i) ==
    SubSeq(t, i + 1, Min({j \in (i + 1)..Len(t) : t[j] \in {FenceOpen, FenceClose}}) - 1)

\* The content is a well-formed object with the keys summary and promises.
FullAnalysis(content) ==
    /\ IsJson(content)
    /\ HasMember(content, SummaryPair)
    /\ HasMember(content, PromisesPair)

\* C13 as stated: when the reply contains a well-formed fenced JSON block
\* with the keys summary and promises, the row is saved with
\* vision_summary equal to the summary value and key_promises equal to
\* the promises value.
C13_AnyBlockStored ==
    (upPc = "saved"
        /\ \E i \in 1..Len(upReply) :
              BlockAt(upReply, i) /\ FullAnalysis(BlockContent(upReply, i)))
    => /\ manifesto.saved
       /\ manifesto.vision_summary = JsonString("S")
       /\ manifesto.key_promises = JsonString("P")

\* C13, amended: when the first fenced block of the reply is a well-formed
\* object with the keys summary and promises, the row is saved with
\* exactly these two values; when the first fenced block is not
\* well-formed JSON, the values of a later block are not stored.
C13_FirstBlockStored ==
    upPc = "saved" =>
        /\ (HasFence(upReply) /\ FullAnalysis(FenceContent(upReply))) =>
               /\ manifesto.saved
               /\ manifesto.vision_summary = JsonString("S")
               /\ manifesto.key_promises = JsonString("P")
        /\ (HasFence(upReply) /\ ~IsJson(FenceContent(upReply))) =>
               /\ manifesto.vision_summary = TextPrefix(upText)
               /\ manifesto.key_promises = NullValue

\* A reply of prose followed by a full fenced block was stored.
C13_Witness ==
    /\ upPc = "saved"
    /\ Len(upReply) > 1 /\ upReply[1] = Prose
    /\ HasFence(upReply) /\ FullAnalysis(FenceContent(upReply))
    /\ manifesto.vision_summary = JsonString("S")
    /\ manifesto.key_promises = JsonString("P")

\* The reply ends with a fenced block that opens at t[i].
EndsWithBlockAt(t, i) ==
    LET e == Max({0} \cup {k \in 1..Len(t) : t[k] # Ws}) IN
    /\ e > i
    /\ t[i] = FenceOpen /\ t[e] = FenceClose
    /\ \A k \in (i + 1)..(e - 1) : t[k] \notin {FenceOpen, FenceClose}

\* The text holds a fenced JSON block: three backticks and the word json,
\* and three backticks somewhere after them.
HasFencedBlock(t) ==
    \E i \in 1..Len(t) :
        /\ \/ t[i] = FenceOpen
           \/ t[i] = JsonWord /\ i > 1 /\ t[i - 1] = FenceClose
        /\ \E j \in (i + 1)..Len(t) : t[j] \in {FenceOpen, FenceClose}

\* C14: after an upload whose reply ends with a fenced JSON block, the
\* analysis text kept on the row is the reply without that block; the
\* report text stored by get_candidate_intelligence_report holds no fenced
\* JSON block.
C14_BlockStripped ==
    /\ upPc = "saved" =>
          \A i \in 1..Len(upReply) :
              EndsWithBlockAt(upReply, i) =>
                  manifesto.ai_vision_analysis.text = StripWs(SubSeq(upReply, 1, i - 1))
    /\ rpPc = "done" => ~HasFencedBlock(upReport)

\* C15: for a non-empty document text and a non-empty reply without
\* parseable JSON, or with a parsed object that lacks one of the two keys,
\* the three fields of the saved row are all set and non-empty.
C15_NoEmptyField ==
    (/\ upPc = "saved" /\ upText > 0 /\ upReply # <<>>
     /\ \/ ~Truthy(parse_structured_response(upReply))
        \/ ~HasMember(parse_structured_response(upReply).val, SummaryPair)
        \/ ~HasMember(parse_structured_response(upReply).val, PromisesPair))
    => /\ manifesto.vision_summary.src # "null" /\ manifesto.vision_summary.len > 0
       /\ manifesto.key_promises.src # "null" /\ manifesto.key_promises.len > 0
       /\ ~manifesto.ai_vision_analysis.null /\ manifesto.ai_vision_analysis.text # <<>>

----------------------------------------------------------------------------
(* --------------------------- Candidate.save --------------------------- *)

MaxCandidates == 3

\* A letter outside ASCII (U+0928, DEVANAGARI LETTER NA), as one character.
Devanagari == "U+0928"

\* Names typed into the candidate form: two that differ only in case and
\* punctuation, one whose slug looks like a suffixed slug of the others, and
\* one written without ASCII letters.
CandidateNames ==
    {<<"r">>, <<"R", ".">>, <<"r", Space, "1">>, <<Devanagari>>}

IsAscii(c) == c # Devanagari

IsSlugWordChar(c) == c \in {"r", "b", "1", "2", "_"}

IsSeparator(c) == c \in {Space, "-"}

\* re.sub(r'[-\s]+', '-', value): every run of separators becomes one hyphen.
RECURSIVE CollapseSeparators(_)
CollapseSeparators(t) ==
    IF t = <<>> THEN <<>>
    ELSE IF IsSeparator(t[1])
         THEN IF Len(t) > 1 /\ IsSeparator(t[2])
              THEN CollapseSeparators(Tail(t))
              ELSE <<"-">> \o CollapseSeparators(Tail(t))
         ELSE <<t[1]>> \o CollapseSeparators(Tail(t))

\* str.strip('-_')
RECURSIVE StripLeft(_)
StripLeft(t) ==
    IF t # <<>> /\ t[1] \in {"-", "_"} THEN StripLeft(Tail(t)) ELSE t

RECURSIVE StripRight(_)
StripRight(t) ==
    IF t # <<>> /\ t[Len(t)] \in {"-", "_"}
    THEN StripRight(SubSeq(t, 1, Len(t) - 1))
    ELSE t

\* django.utils.text.slugify(value): the non-ASCII characters are dropped,
\* the rest is lowered, what is neither a word character nor a separator is
\* removed, separator runs become one hyphen, and hyphens and underscores at
\* both ends are stripped.
Slugify(value) ==
    LET ascii   == SelectSeq(value, IsAscii)
        lowered == LowerStr(ascii)
        kept    == SelectSeq(lowered, LAMBDA c : IsSlugWordChar(c) \/ IsSeparator(c))
    IN  StripRight(StripLeft(CollapseSeparators(kept)))

\* f"{base_slug}-{counter}"
SuffixedSlug(base_slug, counter) == base_slug \o <<"-", ToString(counter)>>

\* The slug field: <<>> is None, <<s>> is the string s.
NoSlug == <<>>

SlugValue(s) == <<s>>

\* not self.slug
SlugFalsy(field) == field = NoSlug \/ field = SlugValue(<<>>)

SlugExists_none(table, slug) == FALSE

\* Candidate.objects.filter(slug=slug).exists()
SlugExists(table, slug) == \E r \in table : r.slug = SlugValue(slug)

\* super().save(): an instance without a primary key is inserted under the
\* next one, an instance with one replaces its row.
SavedRows(table, instance, id) ==
    {r \in table : r.id # id} \cup {[instance EXCEPT !.id = id]}

\* No save is running.
NoInstance == [id |-> 0, name |-> <<>>, slug |-> <<>>]

\* The primary key save writes the instance under.
SavedId(instance, next_id) == IF instance.id = 0 THEN next_id ELSE instance.id

InitSlug ==
    /\ IdleSlug
    /\ IdleAI /\ IdleParse /\ IdleSearch /\ IdleCtx /\ IdleEngage /\ IdleTraffic /\ IdleChatbot /\ IdleSession /\ IdleUpload /\ IdleRequest /\ IdleRace /\ IdlePdf /\ IdleReport /\ IdleIntel

\* models.py 32-37 and 42: save entered with the instance; the search for a
\* slug starts when the instance has none, otherwise the row is written.
BeginSave(instance) ==
    /\ slPc = "idle"
    /\ IF SlugFalsy(instance.slug)
       THEN /\ slSelf' = instance
            /\ slBase' = Slugify(instance.name)
            /\ slSlug' = Slugify(instance.name)
            /\ slCounter' = 1
            /\ slPc' = "loop"
            /\ UNCHANGED <<slTable, slNextId>>
       ELSE /\ slTable' = SavedRows(slTable, instance, instance.id)
            /\ UNCHANGED <<slPc, slSelf, slBase, slSlug, slCounter, slNextId>>
    /\ UNCHANGED nonSlugVars

\* CandidateCreateView (views.py 80-86): the form saves a new instance.
CreateCandidate ==
    \E name \in CandidateNames :
        /\ slNextId <= MaxCandidates
        /\ BeginSave([id |-> 0, name |-> name, slug |-> NoSlug])

\* CandidateUpdateView (views.py 95-108) and the second save of
\* form_valid (views.py 90, 105): a stored candidate is saved again, with
\* the name of the form.
UpdateCandidate ==
    \E r \in slTable : \E name \in CandidateNames :
        BeginSave([r EXCEPT !.name = name])

\* CandidateDeleteView (views.py 110-113)
DeleteCandidate ==
    /\ slPc = "idle"
    /\ \E r \in slTable : slTable' = slTable \ {r}
    /\ UNCHANGED <<slPc, slSelf, slBase, slSlug, slCounter, slNextId>>
    /\ UNCHANGED nonSlugVars

\* models.py 38-40: one turn of the loop.
SlugLoop ==
    /\ slPc = "loop"
    /\ SlugExists(slTable, slSlug)
    /\ slSlug' = SuffixedSlug(slBase, slCounter)
    /\ slCounter' = slCounter + 1
    /\ UNCHANGED <<slPc, slSelf, slBase, slTable, slNextId>>
    /\ UNCHANGED nonSlugVars

\* models.py 41-42: the loop is left, the slug is set and the row written;
\* the locals of save are gone.
SlugStore ==
    /\ slPc = "loop"
    /\ ~SlugExists(slTable, slSlug)
    /\ LET instance == [slSelf EXCEPT !.slug = SlugValue(slSlug)]
           id       == SavedId(slSelf, slNextId)
       IN  /\ slTable' = SavedRows(slTable, instance, id)
           /\ slSelf' = NoInstance
           /\ slNextId' = IF slSelf.id = 0 THEN slNextId + 1 ELSE slNextId
    /\ slPc' = "idle"
    /\ slBase' = <<>> /\ slSlug' = <<>> /\ slCounter' = 1
    /\ UNCHANGED nonSlugVars

NextSlug ==
    \/ CreateCandidate
    \/ UpdateCandidate
    \/ DeleteCandidate
    \/ SlugLoop
    \/ SlugStore

SpecSlug == InitSlug /\ [][NextSlug]_vars

UniqueSlugs(table) ==
    \A r1, r2 \in table : r1.id # r2.id => r1.slug # r2.slug

SlugFree(table, s) == \A r \in table : r.slug # SlugValue(s)

\* The base slug when no row has it, otherwise the base slug with the
\* smallest k >= 1 no row has.
SmallestFreeSlug(table, base) ==
    IF SlugFree(table, base) THEN base
    ELSE LET k == CHOOSE k \in 1..(Cardinality(table) + 1) :
                      /\ SlugFree(table, SuffixedSlug(base, k))
                      /\ \A j \in 1..(k - 1) :
                             ~SlugFree(table, SuffixedSlug(base, j))
         IN  SuffixedSlug(base, k)

\* C18 (as the code has it): over sequential saves no two stored candidates
\* share a slug; a save that assigns a slug assigns the slug of the name the
\* instance has at that save, as it is when no row has it and otherwise
\* with the smallest numeric suffix no row has; and the loop's counter never
\* exceeds the number of rows plus one, so the search ends.
C18_SlugAssigned ==
    [][/\ UniqueSlugs(slTable')
       /\ (slPc' = "loop" => slCounter' <= Cardinality(slTable') + 1)
       /\ (slPc = "loop" /\ slPc' = "idle" =>
              [id   |-> SavedId(slSelf, slNextId),
               name |-> slSelf.name,
               slug |-> SlugValue(SmallestFreeSlug(slTable,
                                                   Slugify(slSelf.name)))]
                  \in slTable')]_vars

\* Three candidates, the first and the third of one name: the third got the
\* suffix 2 because the second one's own slug reads as the suffix 1.
C18_Witness ==
    /\ slPc = "idle"
    /\ \E r1, r2, r3 \in slTable :
           /\ r1.id < r2.id /\ r2.id < r3.id
           /\ r1.name = r3.name
           /\ r1.slug = SlugValue(Slugify(r1.name))
           /\ r2.slug = SlugValue(SuffixedSlug(Slugify(r1.name), 1))
           /\ r3.slug = SlugValue(SuffixedSlug(Slugify(r1.name), 2))

\* C18 (as stated): every stored candidate's slug is the slug of its name,
\* bare or with a numeric suffix, and no two candidates share a slug.
C18_SlugOfItsName ==
    /\ UniqueSlugs(slTable)
    /\ \A r \in slTable :
           \/ r.slug = SlugValue(Slugify(r.name))
           \/ \E k \in 1..(MaxCandidates + 1) :
                  r.slug = SlugValue(SuffixedSlug(Slugify(r.name), k))

----------------------------------------------------------------------------
(* ------------------------- chat_view, one POST ------------------------- *)

MaxPosts == 3

\* request.body as json.loads and the two lines after it see it: whether it
\* is JSON at all, whether the JSON is an object, whether the object has
\* the key query, whether its value is a string, and the string.
Body(valid, object, has_query, string, query) ==
    [valid |-> valid, object |-> object, has_query |-> has_query,
     string |-> string, query |-> query]

PostedQueries ==
    {<<>>, <<Space>>, <<Space, Space>>, <<"q">>, <<Space, "q", Space>>, <<"q", Space, "q">>}

RequestBodies ==
    {Body(FALSE, FALSE, FALSE, FALSE, <<>>),     \* not JSON
     Body(TRUE, FALSE, FALSE, FALSE, <<>>),      \* JSON, but a list or a number
     Body(TRUE, TRUE, FALSE, FALSE, <<>>),       \* {} : no query
     Body(TRUE, TRUE, TRUE, FALSE, <<>>)}        \* {"query": null}
    \cup {Body(TRUE, TRUE, TRUE, TRUE, q) : q \in PostedQueries}

NoResponse == [status |-> "none", http |-> 0]

JsonResponse(status, http) == [status |-> status, http |-> http]

\* views.py 143-144 raise: json.loads on a body that is not JSON, .get on
\* what is no dict, .strip on what is no string.
BodyRaises(body) ==
    \/ ~body.valid
    \/ ~body.object
    \/ (body.has_query /\ ~body.string)

StripQuery_raw(body) == IF body.has_query THEN body.query ELSE <<>>

\* views.py 144: data.get('query', '').strip()
StripQuery(body) == IF body.has_query THEN StripWs(body.query) ELSE <<>>

InitRequest ==
    /\ IdleAI /\ IdleParse /\ IdleSearch /\ IdleCtx /\ IdleEngage /\ IdleTraffic /\ IdleChatbot /\ IdleSession /\ IdleUpload /\ IdleSlug /\ IdleRace /\ IdlePdf /\ IdleReport /\ IdleIntel
    /\ rqPc = "ready"
    /\ rqBody = Body(FALSE, FALSE, FALSE, FALSE, <<>>)
    /\ rqQuery = <<>>
    /\ rqSession = <<>>
    /\ rqLogs = <<>>
    /\ rqWeb = 0
    /\ rqLlm = 0
    /\ rqResponse = NoResponse
    /\ rqN = 0

\* views.py 141: a POST arrives.
ReceivePost ==
    /\ rqPc = "ready"
    /\ rqN < MaxPosts
    /\ \E body \in RequestBodies : rqBody' = body
    /\ rqN' = rqN + 1
    /\ rqQuery' = <<>>
    /\ rqResponse' = NoResponse
    /\ rqPc' = "start"
    /\ UNCHANGED <<rqSession, rqLogs, rqWeb, rqLlm>>
    /\ UNCHANGED nonRequestVars

\* views.py 143-147, 181-183: the body is read; what raises is answered
\* with status 500 by the handler, an empty query with status 400.
ReadBody ==
    /\ rqPc = "start"
    /\ IF BodyRaises(rqBody)
       THEN /\ rqResponse' = JsonResponse("error", 500)
            /\ rqPc' = "ready"
            /\ UNCHANGED rqQuery
       ELSE IF StripQuery(rqBody) = <<>>
       THEN /\ rqResponse' = JsonResponse("error", 400)
            /\ rqPc' = "ready"
            /\ UNCHANGED rqQuery
       ELSE /\ rqQuery' = StripQuery(rqBody)
            /\ rqPc' = "context"
            /\ UNCHANGED rqResponse
    /\ UNCHANGED <<rqBody, rqSession, rqLogs, rqWeb, rqLlm, rqN>>
    /\ UNCHANGED nonRequestVars

\* views.py 150: get_relevant_context(user_query)
GatherContext ==
    /\ rqPc = "context"
    /\ rqWeb' = rqWeb + 1
    /\ rqPc' = "answer"
    /\ UNCHANGED <<rqBody, rqQuery, rqSession, rqLogs, rqLlm, rqResponse, rqN>>
    /\ UNCHANGED nonRequestVars

\* views.py 153-161: get_chatbot_response with the history of the session.
AnswerQuery ==
    /\ rqPc = "answer"
    /\ rqLlm' = rqLlm + 1
    /\ rqPc' = "update"
    /\ UNCHANGED <<rqBody, rqQuery, rqSession, rqLogs, rqWeb, rqResponse, rqN>>
    /\ UNCHANGED nonRequestVars

\* views.py 166-168
UpdateHistory ==
    /\ rqPc = "update"
    /\ rqSession' = TrimChat(rqSession \o <<Turn("user", "chat", rqN),
                                            Turn("assistant", "chat", rqN)>>)
    /\ rqPc' = "log"
    /\ UNCHANGED <<rqBody, rqQuery, rqLogs, rqWeb, rqLlm, rqResponse, rqN>>
    /\ UNCHANGED nonRequestVars

\* views.py 171-179: the sentiment is computed, the QueryLog row is created
\* and the answer is sent.
LogQuery ==
    /\ rqPc = "log"
    /\ rqLogs' = Append(rqLogs, rqQuery)
    /\ rqResponse' = JsonResponse("success", 200)
    /\ rqPc' = "ready"
    /\ UNCHANGED <<rqBody, rqQuery, rqSession, rqWeb, rqLlm, rqN>>
    /\ UNCHANGED nonRequestVars

\* views.py 171-177, 181-183: calculate_sentiment or the creation of the
\* row raises; the handler answers with status 500.
LogQueryRaises ==
    /\ rqPc = "log"
    /\ rqResponse' = JsonResponse("error", 500)
    /\ rqPc' = "ready"
    /\ UNCHANGED <<rqBody, rqQuery, rqSession, rqLogs, rqWeb, rqLlm, rqN>>
    /\ UNCHANGED nonRequestVars

NextRequest ==
    \/ ReceivePost
    \/ ReadBody
    \/ GatherContext
    \/ AnswerQuery
    \/ UpdateHistory
    \/ LogQuery
    \/ LogQueryRaises

SpecRequest == InitRequest /\ [][NextRequest]_vars

\* The body is not valid JSON, or it is an object whose query is missing,
\* empty or made of whitespace only.
FaultyBody(body) ==
    \/ ~body.valid
    \/ /\ body.object
       /\ \/ ~body.has_query
          \/ body.string /\ \A i \in 1..Len(body.query) : body.query[i] = Space

\* C22: a chat POST whose body is not valid JSON, or whose query is empty or
\* whitespace-only, is answered with an error envelope of status 4xx or
\* 5xx; while it is handled no web search and no LLM call is made, the
\* chat_history of the session stays as it is and no QueryLog row is
\* created.
C22_FaultsRejected ==
    [][(rqPc # "ready" /\ FaultyBody(rqBody)) =>
          /\ rqPc' = "ready"
          /\ rqResponse'.status = "error"
          /\ rqResponse'.http \in 400..599
          /\ rqWeb' = rqWeb /\ rqLlm' = rqLlm
          /\ rqSession' = rqSession
          /\ rqLogs' = rqLogs]_vars

\* After an answered request, a whitespace-only query was rejected with
\* status 400 and the history of the answered one is still there.
C22_Witness ==
    /\ rqPc = "ready"
    /\ rqBody = Body(TRUE, TRUE, TRUE, TRUE, <<Space, Space>>)
    /\ rqResponse = JsonResponse("error", 400)
    /\ Len(rqSession) = 2
    /\ Len(rqLogs) = 1
    /\ rqWeb = 1 /\ rqLlm = 1

----------------------------------------------------------------------------
(* -------------- log_candidate_engagement, calls in flight -------------- *)

\* The invocations that may be in flight together.
NumCalls == 2

RaceMaxTime == 3

NewCall == [pc |-> "new", candidate |-> "", type |-> "", rows |-> 0, ret |-> FALSE]

InitRace ==
    /\ IdleAI /\ IdleParse /\ IdleSearch /\ IdleCtx /\ IdleEngage /\ IdleTraffic /\ IdleChatbot /\ IdleSession /\ IdleUpload /\ IdleSlug /\ IdleRequest /\ IdlePdf /\ IdleReport /\ IdleIntel
    /\ rcCall = [p \in 1..NumCalls |-> NewCall]
    /\ rcMadeBy = <<>>

\* services.py 118-126: the invocation looks for a recent row of its
\* candidate; it returns False when there is one.
RaceCheck(p) ==
    /\ rcCall # <<>>
    /\ rcCall[p].pc = "new"
    /\ \E c \in CandidateIds, type \in EngagementTypes :
          rcCall' = [rcCall EXCEPT ![p] =
                        [pc |-> IF RecentLog(c, now) THEN "done" ELSE "create",
                         candidate |-> c, type |-> type,
                         rows |-> Len(history), ret |-> FALSE]]
    /\ UNCHANGED <<now, history, rcMadeBy>>
    /\ UNCHANGED nonRaceVars

\* services.py 127-131: the row is created, with the time of its creation,
\* and True is returned.
RaceCreate(p) ==
    /\ rcCall # <<>>
    /\ rcCall[p].pc = "create"
    /\ history' = Append(history, EngagementRow(rcCall[p].candidate, rcCall[p].type, now))
    /\ rcMadeBy' = Append(rcMadeBy, p)
    /\ rcCall' = [rcCall EXCEPT ![p] = [@ EXCEPT !.pc = "done", !.ret = TRUE]]
    /\ UNCHANGED now
    /\ UNCHANGED nonRaceVars

\* Time passes while the invocations run.
RaceTick ==
    /\ rcCall # <<>>
    /\ now < RaceMaxTime
    /\ now' = now + 1
    /\ UNCHANGED <<history, rcCall, rcMadeBy>>
    /\ UNCHANGED nonRaceVars

NextRace ==
    \/ \E p \in 1..NumCalls : RaceCheck(p)
    \/ \E p \in 1..NumCalls : RaceCreate(p)
    \/ RaceTick

SpecRace == InitRace /\ [][NextRace]_vars

\* C23: the check and the create are not guarded together.  Two rows of one
\* candidate lie inside one 1-hour window only through the interleaving in
\* which the invocation that created the later row made its existence
\* check before the earlier row was created; that interleaving exists
\* (C23_Witness).
C23_DuplicatesOnlyByRace ==
    rcCall # <<>> =>
        \A i \in 1..Len(history) : \A j \in (i + 1)..Len(history) :
            (/\ history[i].candidate = history[j].candidate
             /\ history[j].timestamp - history[i].timestamp < HourTicks)
                => rcCall[rcMadeBy[j]].rows < i

\* Two invocations for c1 both made their check while no row existed, both
\* created a row and returned True: two rows of c1 in one 1-hour window.
C23_Witness ==
    /\ rcCall # <<>>
    /\ rcCall[1].pc = "done" /\ rcCall[2].pc = "done"
    /\ rcCall[1].candidate = "c1" /\ rcCall[2].candidate = "c1"
    /\ rcCall[1].rows = 0 /\ rcCall[2].rows = 0
    /\ rcCall[1].ret /\ rcCall[2].ret
    /\ Len(history) = 2
    /\ history[1].candidate = "c1" /\ history[2].candidate = "c1"
    /\ history[2].timestamp - history[1].timestamp < HourTicks

----------------------------------------------------------------------------
(* ------------------------ extract_text_from_pdf ------------------------ *)

MaxPages == 3

MaxBudget == 3

\* What page.extract_text() gives for a page: text with runs of whitespace,
\* no text at all, or an exception.
PageOutcomes ==
    {[raises |-> FALSE, text |-> <<>>],
     [raises |-> FALSE, text |-> <<"a">>],
     [raises |-> FALSE, text |-> <<Space, "a", Space, Space, "b", Space>>],
     [raises |-> FALSE, text |-> <<"a", "b", "c", "d">>],
     [raises |-> TRUE, text |-> <<>>]}

PdfFiles ==
    {[readable |-> FALSE, pages |-> <<>>]}
    \cup {[readable |-> TRUE, pages |-> ps] :
             ps \in UNION {[1..n -> PageOutcomes] : n \in 0..MaxPages}}

\* re.sub(r'\s+', ' ', page_text): every run of whitespace becomes one
\* space.
RECURSIVE CollapseWhitespace(_)
CollapseWhitespace(t) ==
    IF t = <<>> THEN <<>>
    ELSE IF t[1] = Space
         THEN IF Len(t) > 1 /\ t[2] = Space
              THEN CollapseWhitespace(Tail(t))
              ELSE <<Space>> \o CollapseWhitespace(Tail(t))
         ELSE <<t[1]>> \o CollapseWhitespace(Tail(t))

\* utils.py 106
CleanPage(page_text) == StripWs(CollapseWhitespace(page_text))

PagePart(text) == [kind |-> "page", text |-> text]

\* utils.py 111: the truncation notice.
TruncationNotice == [kind |-> "notice", text |-> <<>>]

\* utils.py 110
OverBudget(chars_count, max_chars) == chars_count > max_chars

InitPdf ==
    /\ IdleAI /\ IdleParse /\ IdleSearch /\ IdleCtx /\ IdleEngage /\ IdleTraffic /\ IdleChatbot /\ IdleSession /\ IdleUpload /\ IdleSlug /\ IdleRequest /\ IdleRace /\ IdleReport /\ IdleIntel
    /\ pdPc = "start"
    /\ pdFile \in PdfFiles
    /\ pdMax \in 0..MaxBudget
    /\ pdIdx = 1
    /\ pdParts = <<>>
    /\ pdCount = 0
    /\ pdResult = [kind |-> "none", parts |-> <<>>]

\* utils.py 99-101, 115-117: the reader is built; a file it cannot read
\* ends in the except branch.
PdfOpen ==
    /\ pdPc = "start"
    /\ IF pdFile.readable
       THEN pdPc' = "loop" /\ UNCHANGED pdResult
       ELSE pdPc' = "done" /\ pdResult' = [kind |-> "error", parts |-> <<>>]
    /\ UNCHANGED <<pdFile, pdMax, pdIdx, pdParts, pdCount>>
    /\ UNCHANGED nonPdfVars

\* utils.py 103-112: one turn of the loop over the pages.
PdfPage ==
    /\ pdPc = "loop"
    /\ pdIdx <= Len(pdFile.pages)
    /\ LET page == pdFile.pages[pdIdx]
           clean_page == CleanPage(page.text)
           count == pdCount + Len(clean_page)
       IN  IF page.raises
           THEN /\ pdPc' = "done"
                /\ pdResult' = [kind |-> "error", parts |-> <<>>]
                /\ UNCHANGED <<pdIdx, pdParts, pdCount>>
           ELSE /\ pdCount' = count
                /\ pdIdx' = pdIdx + 1
                /\ IF OverBudget(count, pdMax)
                   THEN /\ pdParts' = pdParts \o <<PagePart(clean_page), TruncationNotice>>
                        /\ pdPc' = "done"
                        /\ pdResult' = [kind |-> "text",
                                        parts |-> pdParts \o <<PagePart(clean_page),
                                                               TruncationNotice>>]
                   ELSE /\ pdParts' = Append(pdParts, PagePart(clean_page))
                        /\ UNCHANGED <<pdPc, pdResult>>
    /\ UNCHANGED <<pdFile, pdMax>>
    /\ UNCHANGED nonPdfVars

\* utils.py 114: the pages are used up; the parts are joined and returned.
PdfReturn ==
    /\ pdPc = "loop"
    /\ pdIdx > Len(pdFile.pages)
    /\ pdPc' = "done"
    /\ pdResult' = [kind |-> "text", parts |-> pdParts]
    /\ UNCHANGED <<pdFile, pdMax, pdIdx, pdParts, pdCount>>
    /\ UNCHANGED nonPdfVars

NextPdf ==
    \/ PdfOpen
    \/ PdfPage
    \/ PdfReturn

SpecPdf == InitPdf /\ [][NextPdf]_vars

\* The characters of page text in the parts.
RECURSIVE PageChars(_)
PageChars(parts) ==
    IF parts = <<>> THEN 0
    ELSE (IF parts[1].kind = "page" THEN Len(parts[1].text) ELSE 0)
         + PageChars(Tail(parts))

\* C25: the text returned, the truncation notice apart, holds at most
\* max_chars characters of page text; and when the extraction fails the
\* function returns an error string.
C25_WithinBudget ==
    pdPc = "done" =>
        /\ pdResult.kind \in {"text", "error"}
        /\ pdResult.kind = "text" => PageChars(pdResult.parts) <= pdMax

\* What the code does keep: the pages before the one that crosses the
\* budget hold at most max_chars characters, the returned text ends with
\* the notice exactly when the budget is crossed, and a failure gives the
\* error string.
C25_WholePagesKept ==
    pdPc = "done" =>
        /\ pdResult.kind \in {"text", "error"}
        /\ pdResult.kind = "text" =>
              LET parts == pdResult.parts
                  noticed == parts # <<>> /\ parts[Len(parts)].kind = "notice"
              IN  /\ noticed <=> PageChars(parts) > pdMax
                  /\ noticed => PageChars(SubSeq(parts, 1, Len(parts) - 2)) <= pdMax

----------------------------------------------------------------------------
(* --------- CandidateDetailView beside candidate_report_view --------- *)

\* The requests for one candidate that may be in flight together.
NumViewers == 3

NewViewer == [kind |-> "none", pc |-> "new", loaded |-> 0]

InitReport ==
    /\ IdleAI /\ IdleParse /\ IdleSearch /\ IdleCtx /\ IdleEngage /\ IdleTraffic /\ IdleChatbot /\ IdleSession /\ IdleUpload /\ IdleSlug /\ IdleRequest /\ IdleRace /\ IdlePdf /\ IdleIntel
    /\ rvReq = [p \in 1..NumViewers |-> NewViewer]
    /\ rvBase \in {0, 1}
    /\ rvCount = rvBase

\* DetailView.get(): get_object() loads the candidate of the page.
ViewerGet(p) ==
    /\ rvReq # <<>>
    /\ rvReq[p].pc = "new"
    /\ rvReq' = [rvReq EXCEPT ![p] = [kind |-> "detail", pc |-> "update", loaded |-> rvCount]]
    /\ UNCHANGED <<rvCount, rvBase>>
    /\ UNCHANGED nonReportVars

\* views.py 52-53: view_count = F('view_count') + 1, saved with
\* update_fields=['view_count'].
ViewerUpdate(p) ==
    /\ rvReq # <<>>
    /\ rvReq[p].kind = "detail" /\ rvReq[p].pc = "update"
    /\ rvCount' = FIncrement(rvCount, rvReq[p].loaded)
    /\ rvReq' = [rvReq EXCEPT ![p] = [@ EXCEPT !.pc = "done"]]
    /\ UNCHANGED rvBase
    /\ UNCHANGED nonReportVars

\* views.py 471: get_object_or_404(Candidate, pk=pk) loads every field of
\* the row, view_count among them.
ReportLoad(p) ==
    /\ rvReq # <<>>
    /\ rvReq[p].pc = "new"
    /\ rvReq' = [rvReq EXCEPT ![p] = [kind |-> "report", pc |-> "llm", loaded |-> rvCount]]
    /\ UNCHANGED <<rvCount, rvBase>>
    /\ UNCHANGED nonReportVars

\* views.py 478-481, 507: the stored report is shown; nothing is saved.
ReportCached(p) ==
    /\ rvReq # <<>>
    /\ rvReq[p].kind = "report" /\ rvReq[p].pc = "llm"
    /\ rvReq' = [rvReq EXCEPT ![p] = [@ EXCEPT !.pc = "done"]]
    /\ UNCHANGED <<rvCount, rvBase>>
    /\ UNCHANGED nonReportVars

\* views.py 483-503 (services.py 100): get_ai_response has answered.
ReportAnswered(p) ==
    /\ rvReq # <<>>
    /\ rvReq[p].kind = "report" /\ rvReq[p].pc = "llm"
    /\ rvReq' = [rvReq EXCEPT ![p] = [@ EXCEPT !.pc = "save"]]
    /\ UNCHANGED <<rvCount, rvBase>>
    /\ UNCHANGED nonReportVars

\* A save() without update_fields writes every field of the instance: the
\* row's view_count becomes the one the instance was loaded with.
FullSave(stored, loaded) == loaded

\* views.py 504-505 (services.py 104-105): candidate.save()
ReportSave(p) ==
    /\ rvReq # <<>>
    /\ rvReq[p].kind = "report" /\ rvReq[p].pc = "save"
    /\ rvCount' = FullSave(rvCount, rvReq[p].loaded)
    /\ rvReq' = [rvReq EXCEPT ![p] = [@ EXCEPT !.pc = "done"]]
    /\ UNCHANGED rvBase
    /\ UNCHANGED nonReportVars

NextReport ==
    \/ \E p \in 1..NumViewers : ViewerGet(p)
    \/ \E p \in 1..NumViewers : ViewerUpdate(p)
    \/ \E p \in 1..NumViewers : ReportLoad(p)
    \/ \E p \in 1..NumViewers : ReportCached(p)
    \/ \E p \in 1..NumViewers : ReportAnswered(p)
    \/ \E p \in 1..NumViewers : ReportSave(p)

SpecReport == InitReport /\ [][NextReport]_vars

\* The detail views that have done their update.
ViewsDone ==
    Cardinality({p \in 1..Len(rvReq) : rvReq[p].kind = "detail" /\ rvReq[p].pc = "done"})

\* C26: when every request is complete, view_count is its initial value
\* plus the number of detail views, whatever report generation ran beside
\* them.
C26_ViewsSurviveSaves ==
    (rvReq # <<>> /\ \A p \in 1..Len(rvReq) : rvReq[p].pc = "done")
        => rvCount = rvBase + ViewsDone

\* C26, second part: view_count never decreases.
C26_NeverDecreases == [][rvCount' >= rvCount]_vars

\* As long as no report request has completed, every detail view is
\* counted.
C26_ViewsAloneCounted ==
    (rvReq # <<>> /\ \A p \in 1..Len(rvReq) :
                        rvReq[p].kind = "report" => rvReq[p].pc # "done")
        => rvCount = rvBase + ViewsDone

----------------------------------------------------------------------------
(* ------------------ get_candidate_intelligence_report ------------------ *)

MaxIntelPieces == 2

\* The replies of the report prompt: pieces of text put together.
IntelPieces ==
    { <<Prose>>,
      <<FenceOpen, Ws, LBrace, FiveScores, RBrace, Ws, FenceClose>>,
      <<FenceOpen, LBrace, MatrixKey, LBrace, FiveScores, RBrace, RBrace, FenceClose>>,
      <<FenceOpen, LBrace, MatrixKey, LBrace, RBrace, RBrace, FenceClose>>,
      <<FenceOpen, LBrace, FiveScores, FenceClose>>,
      <<FenceOpen, LBrace, RBrace, FenceClose>>,
      <<LBrace, FiveScores, RBrace>> }

IntelReplies ==
    {Concat(ps) : ps \in UNION {[1..n -> IntelPieces] : n \in 1..MaxIntelPieces}}

\* A dict of the five scores, as the two literals of the function write it.
ScoreMatrix == [kind |-> "value", val |-> <<LBrace, FiveScores, RBrace>>]

\* obj.get(key) for a key whose value is an object: the value, or None.
DictGetObject(obj, key) ==
    LET at == {k \in 1..Len(obj) :
                  /\ obj[k] = key
                  /\ Cardinality({x \in 1..(k - 1) : obj[x] = LBrace})
                        - Cardinality({x \in 1..(k - 1) : obj[x] = RBrace}) = 1}
    IN  IF at = {} THEN NoneResult
        ELSE [kind |-> "value",
              val |-> SubSeq(obj, Max(at) + 1, ObjEnd(obj, Max(at) + 1) - 1)]

\* services.py 107-110
ContextMatrix(matrix_data) ==
    IF Truthy(matrix_data) THEN DictGetObject(matrix_data.val, MatrixKey)
    ELSE ScoreMatrix

NoReturn == [report |-> <<>>, matrix |-> NoneResult]

InitIntel ==
    /\ IdleAI /\ IdleParse /\ IdleSearch /\ IdleCtx /\ IdleEngage /\ IdleTraffic /\ IdleChatbot /\ IdleSession /\ IdleUpload /\ IdleSlug /\ IdleRequest /\ IdleRace /\ IdlePdf /\ IdleReport
    /\ inPc = "start"
    /\ inRegenerate \in BOOLEAN
    /\ inReply \in IntelReplies
    /\ inAnalysis \in {<<>>, <<Prose>>}
    /\ inSaves = 0
    /\ inLlm = 0
    /\ inMatrix = NoneResult
    /\ inReturn = NoReturn

\* services.py 83-87: the stored analysis is returned with the fixed
\* matrix.
IntelCached ==
    /\ inPc = "start"
    /\ ~inRegenerate /\ inAnalysis # <<>>
    /\ inReturn' = [report |-> inAnalysis, matrix |-> ScoreMatrix]
    /\ inPc' = "done"
    /\ UNCHANGED <<inRegenerate, inReply, inAnalysis, inSaves, inLlm, inMatrix>>
    /\ UNCHANGED nonIntelVars

\* services.py 89-105: the reply is asked for, parsed and stripped of its
\* fenced block; the candidate is saved with the report.
IntelGenerate ==
    /\ inPc = "start"
    /\ ~(~inRegenerate /\ inAnalysis # <<>>)
    /\ inLlm' = inLlm + 1
    /\ inMatrix' = parse_structured_response(inReply)
    /\ inAnalysis' = ReportContent(inReply)
    /\ inSaves' = inSaves + 1
    /\ inPc' = "parsed"
    /\ UNCHANGED <<inRegenerate, inReply, inReturn>>
    /\ UNCHANGED nonIntelVars

\* services.py 107-112
IntelReturn ==
    /\ inPc = "parsed"
    /\ inReturn' = [report |-> inAnalysis, matrix |-> ContextMatrix(inMatrix)]
    /\ inPc' = "done"
    /\ UNCHANGED <<inRegenerate, inReply, inAnalysis, inSaves, inLlm, inMatrix>>
    /\ UNCHANGED nonIntelVars

NextIntel ==
    \/ IntelCached
    \/ IntelGenerate
    \/ IntelReturn

SpecIntel == InitIntel /\ [][NextIntel]_vars

\* m maps each of the five score keys to a number.
HasFiveScores(m) ==
    /\ m.kind = "value"
    /\ \E k \in 1..Len(m.val) :
          /\ m.val[k] = FiveScores
          /\ Cardinality({x \in 1..(k - 1) : m.val[x] = LBrace})
                - Cardinality({x \in 1..(k - 1) : m.val[x] = RBrace}) = 1

\* C27: whatever the reply, the second component returned maps each of the
\* five score keys to a number; and on the cached path no LLM call is made
\* and the candidate is not saved.
C27_AlwaysScoreMatrix ==
    inPc = "done" =>
        /\ HasFiveScores(inReturn.matrix)
        /\ (~inRegenerate /\ inLlm = 0) => inSaves = 0

\* What holds: without a JSON object in the reply, and on the cached path,
\* the fixed matrix of five scores is returned, and the cached path calls
\* no model and saves nothing.
C27_FallbackMatrix ==
    inPc = "done" =>
        /\ (inLlm = 0 \/ ~Truthy(inMatrix)) => HasFiveScores(inReturn.matrix)
        /\ inLlm = 0 => (inSaves = 0 /\ inMatrix = NoneResult)

\* Every component, each started on its own.
Init == InitAI \/ InitParse \/ InitSearch \/ InitCtx \/ InitEngage \/ InitTraffic \/ InitChatbot \/ InitSession \/ InitUpload \/ InitSlug \/ InitRequest \/ InitRace \/ InitPdf \/ InitReport \/ InitIntel

Next == NextAI \/ NextParse \/ NextSearch \/ NextCtx \/ NextEngage \/ NextTraffic \/ NextChatbot \/ NextSession \/ NextUpload \/ NextSlug \/ NextRequest \/ NextRace \/ NextPdf \/ NextReport \/ NextIntel

Spec == Init /\ [][Next]_vars

====
